---- MODULE Spec2Model ----
(***************************************************************************)
(* A model of scarf-seams: the G-code virtual machine (GcodeVm), the       *)
(* command model (GcodeCommand) and the loop-scarfing Processor.           *)
(*                                                                         *)
(* Numbers.  The program computes with IEEE doubles.  The model computes   *)
(* with exact rationals extended by +Infinity, -Infinity and NaN, so the   *)
(* "unknown coordinate" sentinel (Infinity) and its arithmetic are kept.   *)
(* A number is a record [n, d]: n/d in lowest terms with d > 0, or         *)
(* [1,0] = +Infinity, [-1,0] = -Infinity, [0,0] = NaN.  Square roots that  *)
(* are not rational are rounded down to a multiple of 1/64.                 *)
(***************************************************************************)
EXTENDS Integers, Sequences, FiniteSets, TLC

\* Bind(v, Body) is Body with its parameter standing for v: a local
\* constant of the source, whose value is computed once.
Bind(v, Body(_)) == Body(v)

----------------------------------------------------------------------------
(* Extended rational arithmetic (JavaScript number semantics)              *)

Abs(i) == IF i < 0 THEN -i ELSE i

Sgn(i) == IF i < 0 THEN -1 ELSE IF i > 0 THEN 1 ELSE 0

RECURSIVE Gcd(_, _)
Gcd(a, b) == IF b = 0 THEN a ELSE Gcd(b, a % b)

\* n/d (d may be negative or zero) as a number in normal form.
Q(n, d) ==
  IF d = 0 THEN [n |-> Sgn(n), d |-> 0]
  ELSE LET g == Gcd(Abs(n), Abs(d))
           s == IF d < 0 THEN -1 ELSE 1
       IN [n |-> s * (n \div g), d |-> Abs(d) \div g]

I(i) == [n |-> i, d |-> 1]

Zero == I(0)
One == I(1)
Inf == [n |-> 1, d |-> 0]
NegInf == [n |-> -1, d |-> 0]
NaN == [n |-> 0, d |-> 0]

\* The global isFinite(): false for the infinities and NaN.
IsFiniteNum(a) == a.d # 0

IsNaN(a) == a.d = 0 /\ a.n = 0

QNeg(a) == [n |-> -a.n, d |-> a.d]

QAdd(a, b) ==
  IF a.d # 0 /\ b.d # 0
  THEN LET g == Gcd(a.d, b.d)
       IN Q(a.n * (b.d \div g) + b.n * (a.d \div g), (a.d \div g) * b.d)
  ELSE IF IsNaN(a) \/ IsNaN(b) THEN NaN
  ELSE IF a.d = 0 /\ b.d = 0 THEN (IF a.n = b.n THEN a ELSE NaN)
  ELSE IF a.d = 0 THEN a ELSE b

QSub(a, b) == QAdd(a, QNeg(b))

QMul(a, b) ==
  IF a.d # 0 /\ b.d # 0
  THEN LET g1 == Gcd(Abs(a.n), b.d)
           g2 == Gcd(Abs(b.n), a.d)
       IN Q((a.n \div g1) * (b.n \div g2), (a.d \div g2) * (b.d \div g1))
  ELSE IF IsNaN(a) \/ IsNaN(b) THEN NaN
  ELSE IF a.n = 0 \/ b.n = 0 THEN NaN
  ELSE [n |-> Sgn(a.n) * Sgn(b.n), d |-> 0]

\* 1/a; 1/0 is +Infinity (the model has no negative zero).
QInv(a) ==
  IF a.d # 0 THEN (IF a.n = 0 THEN Inf ELSE Q(a.d, a.n))
  ELSE IF IsNaN(a) THEN NaN ELSE Zero

QDiv(a, b) ==
  IF a.d # 0 /\ b.d # 0 /\ b.n = 0 THEN [n |-> Sgn(a.n), d |-> 0]
  ELSE IF a.d = 0 /\ b.d = 0 THEN NaN
  ELSE QMul(a, QInv(b))

\* a < b; every comparison with NaN is false.
QLt(a, b) ==
  IF IsNaN(a) \/ IsNaN(b) THEN FALSE
  ELSE IF a.d # 0 /\ b.d # 0
  THEN LET g == Gcd(a.d, b.d) IN a.n * (b.d \div g) < b.n * (a.d \div g)
  ELSE IF a.d = 0 /\ b.d = 0 THEN a.n < b.n
  ELSE IF a.d = 0 THEN a.n < 0
  ELSE b.n > 0

QGt(a, b) == QLt(b, a)

QLe(a, b) == ~IsNaN(a) /\ ~IsNaN(b) /\ ~QLt(b, a)

\* Math.min / Math.max: NaN if either argument is NaN.
QMin(a, b) == IF IsNaN(a) \/ IsNaN(b) THEN NaN ELSE IF QLt(b, a) THEN b ELSE a

QMax(a, b) == IF IsNaN(a) \/ IsNaN(b) THEN NaN ELSE IF QLt(a, b) THEN b ELSE a

\* Math.ceil of a number, as a number.
QCeil(a) ==
  IF a.d = 0 THEN a
  ELSE IF a.n % a.d = 0 THEN I(a.n \div a.d)
  ELSE I((a.n \div a.d) + 1)

\* Largest r with r*r <= k, by bisection on [lo, hi].
RECURSIVE ISqrtIn(_, _, _)
ISqrtIn(k, lo, hi) ==
  IF lo >= hi THEN lo
  ELSE LET mid == (lo + hi + 1) \div 2
       IN IF mid * mid <= k THEN ISqrtIn(k, mid, hi) ELSE ISqrtIn(k, lo, mid - 1)

ISqrt(k) == ISqrtIn(k, 0, IF k < 46340 THEN k ELSE 46340)

\* floor(n * 2^bits / d) for 0 <= r < d, one binary digit at a time.
RECURSIVE ScaledFloor(_, _, _, _)
ScaledFloor(q, r, d, bits) ==
  IF bits = 0 THEN q
  ELSE IF 2 * r >= d THEN ScaledFloor(2 * q + 1, 2 * r - d, d, bits - 1)
  ELSE ScaledFloor(2 * q, 2 * r, d, bits - 1)

\* x ** 0.5: exact when the square root is rational, otherwise rounded down
\* to a multiple of 1/64 (the double is rounded too, but finer).
QSqrt(a) ==
  IF a.d = 0 THEN (IF a.n = 1 THEN Inf ELSE NaN)
  ELSE IF a.n < 0 THEN NaN
  ELSE LET rn == ISqrt(a.n)
           rd == ISqrt(a.d)
       IN IF rn * rn = a.n /\ rd * rd = a.d THEN Q(rn, rd)
          ELSE Q(ISqrt(ScaledFloor(a.n \div a.d, a.n % a.d, a.d, 12)), 64)

QSq(a) == QMul(a, a)

----------------------------------------------------------------------------
(* util: Point and vectors (src/unnamed/part_003, lines 284-389)           *)

Pt(x, y, z) == [x |-> x, y |-> y, z |-> z]

\* Point.unknown and Point.zero
PointUnknown == Pt(Inf, Inf, Inf)

PointZero == Pt(Zero, Zero, Zero)

\* Point.isFinite
PointIsFinite(p) == IsFiniteNum(p.x) /\ IsFiniteNum(p.y) /\ IsFiniteNum(p.z)

\* Point.distanceTo
DistanceTo(p, o) ==
  QSqrt(QAdd(QAdd(QSq(QSub(p.x, o.x)), QSq(QSub(p.y, o.y))), QSq(QSub(p.z, o.z))))

\* Point.subtract: a vector, modelled as a point record
Subtract(p, o) == Pt(QSub(p.x, o.x), QSub(p.y, o.y), QSub(p.z, o.z))

\* Point.addVector
AddVector(p, v) == Pt(QAdd(p.x, v.x), QAdd(p.y, v.y), QAdd(p.z, v.z))

Norm(v) == QSqrt(QAdd(QAdd(QSq(v.x), QSq(v.y)), QSq(v.z)))

VMul(v, s) == Pt(QMul(v.x, s), QMul(v.y, s), QMul(v.z, s))

Normalize(v) == VMul(v, QDiv(One, Norm(v)))

Axes == {"x", "y", "z"}

\* axis.toUpperCase()
ArgsKey(axis) == CASE axis = "x" -> "X" [] axis = "y" -> "Y" [] OTHER -> "Z"

----------------------------------------------------------------------------
(* GcodeCommand: commands, their arguments and the text of a line          *)
(* (src/unnamed/part_003, lines 1-159)                                     *)

\* A command's args is a JavaScript object: here a sequence of [k, v] with
\* distinct keys, in the object's own enumeration order.
HasArg(args, k) == \E i \in 1..Len(args) : args[i].k = k

ArgVal(args, k) == args[CHOOSE i \in 1..Len(args) : args[i].k = k].v

\* args[k] ?? dflt
ArgOr(args, k, dflt) == IF HasArg(args, k) THEN ArgVal(args, k) ELSE dflt

\* Keys that are array indices enumerate first, in ascending order.
IndexKeys == <<"0", "1", "2", "3", "4", "5", "6", "7", "8", "9">>

IndexOf(k) == CHOOSE i \in 1..Len(IndexKeys) : IndexKeys[i] = k

IsIndexKey(k) == \E i \in 1..Len(IndexKeys) : IndexKeys[i] = k

\* args[k] = v
SetArg(args, k, v) ==
  IF HasArg(args, k)
  THEN [i \in 1..Len(args) |-> IF args[i].k = k THEN [k |-> k, v |-> v] ELSE args[i]]
  ELSE IF IsIndexKey(k)
  THEN LET before == SelectSeq(args, LAMBDA a : IsIndexKey(a.k) /\ IndexOf(a.k) < IndexOf(k))
           after == SubSeq(args, Len(before) + 1, Len(args))
       IN before \o <<[k |-> k, v |-> v]>> \o after
  ELSE Append(args, [k |-> k, v |-> v])

ArgKeys(args) == {args[i].k : i \in 1..Len(args)}

codes ==
  [rapidMove |-> "G0", linearMove |-> "G1", cwArc |-> "G2", ccwArc |-> "G3",
   home |-> "G28", absolute |-> "G90", relative |-> "G91", setPosition |-> "G92",
   resetPositionToNative |-> "G92.1", eAbsolute |-> "M82", eRelative |-> "M83"]

simpleCommandCodes == {codes[f] : f \in DOMAIN codes}

Simple(code, args, comment) ==
  [type |-> "simple", command |-> code, args |-> args, comment |-> comment]

Comment(text) == [type |-> "comment", comment |-> text]

Unknown(text) == [type |-> "unknown", content |-> text]

\* isMoveCommand is imported from GcodeCommand but its body is not in the
\* sources at hand: a motion command is one of the two move codes.
isMoveCommand(command) ==
  command.type = "simple" /\ command.command \in {codes.rapidMove, codes.linearMove}

----------------------------------------------------------------------------
(* The text of a line.  TLA+ strings cannot be taken apart, so a line is   *)
(* a record that keeps what parseCommand looks at:                         *)
(*   [kind |-> "comment", text]  the line ";" \o text                      *)
(*   [kind |-> "other", text]    a line with no leading ";" whose leading  *)
(*                               token is no recognized code (also "")     *)
(*   [kind |-> "instr", lead, code, toks, trail, semi, comment]            *)
(*       optional leading blank, a recognized code, the blank-separated    *)
(*       tokens, optional trailing blank, optional ";" \o comment.         *)
(*   [kind |-> "glued", code, rest]                                        *)
(*       a recognized code with rest right behind it, as in "G1-X5": rest  *)
(*       starts with a character that is no letter, digit, "_", "." or     *)
(*       ";" and holds no blank and no ";".                                *)
(* A token [k, v, p] is the letter k followed by the number v written with *)
(* p decimals (p = -1: no digits at all, which Number() reads as 0).       *)

CommentLine(text) == [kind |-> "comment", text |-> text]

OtherLine(text) == [kind |-> "other", text |-> text]

InstrLine(lead, code, toks, trail, semi, comment) ==
  [kind |-> "instr", lead |-> lead, code |-> code, toks |-> toks, trail |-> trail,
   semi |-> semi, comment |-> comment]

GluedLine(code, rest) == [kind |-> "glued", code |-> code, rest |-> rest]

Tok(k, v, p) == [k |-> k, v |-> v, p |-> p]

\* A plain instruction line: "<code> <tok> <tok>", or the bare code.
Instr(code, toks) == InstrLine(FALSE, code, toks, FALSE, FALSE, "")

\* arg[0] and Number(arg.slice(1)) of a recognized code used as an argument
CodeLetter(code) == IF code \in {codes.eAbsolute, codes.eRelative} THEN "M" ELSE "G"

CodeNumber(code) ==
  CASE code = "G0" -> I(0) [] code = "G1" -> I(1) [] code = "G2" -> I(2)
    [] code = "G3" -> I(3) [] code = "G28" -> I(28) [] code = "G90" -> I(90)
    [] code = "G91" -> I(91) [] code = "G92" -> I(92) [] code = "G92.1" -> Q(921, 10)
    [] code = "M82" -> I(82) [] OTHER -> I(83)

\* commandParts.slice(1) of beforeComment.split(/\s+/): a leading blank makes
\* the first part "" so that the code itself is taken as an argument; a
\* trailing blank adds a last part "", whose arg[0] is undefined.
CommandArgParts(line) ==
  (IF line.lead THEN <<[k |-> CodeLetter(line.code), v |-> CodeNumber(line.code)]>> ELSE <<>>)
    \o [i \in 1..Len(line.toks) |-> [k |-> line.toks[i].k, v |-> line.toks[i].v]]
    \o (IF line.trail THEN <<[k |-> "undefined", v |-> Zero]>> ELSE <<>>)

RECURSIVE CollectArgs(_, _)
CollectArgs(parts, parsedArgs) ==
  IF parts = <<>> THEN parsedArgs
  ELSE CollectArgs(Tail(parts), SetArg(parsedArgs, Head(parts).k, Head(parts).v))

parseCommand(gcodeLine) ==
  IF gcodeLine.kind = "comment" THEN Comment(gcodeLine.text)
  ELSE IF gcodeLine.kind = "instr"
  THEN LET parsed == CollectArgs(CommandArgParts(gcodeLine), <<>>)
           parsedArgs ==
             IF gcodeLine.code = "G92.1"
             THEN SetArg(SetArg(SetArg(parsed, "X", Zero), "Y", Zero), "Z", Zero)
             ELSE parsed
       IN Simple(gcodeLine.code, parsedArgs, IF gcodeLine.semi THEN gcodeLine.comment ELSE "")
  ELSE IF gcodeLine.kind = "glued"
  THEN \* simpleCommandRegex ends with \b, which holds between the code and
       \* rest; the line is one part for split(/\s+/), so there are no args.
       Simple(gcodeLine.code,
              IF gcodeLine.code = "G92.1"
              THEN SetArg(SetArg(SetArg(<<>>, "X", Zero), "Y", Zero), "Z", Zero)
              ELSE <<>>,
              "")
  ELSE Unknown(gcodeLine.text)

RECURSIVE Pow10(_)
Pow10(p) == IF p = 0 THEN 1 ELSE 10 * Pow10(p - 1)

\* floor(10^digits * (q + r/d)) for 0 <= r < d, with the remainder left.
RECURSIVE DecimalFloor(_, _, _, _)
DecimalFloor(q, r, d, digits) ==
  IF digits = 0 THEN [q |-> q, r |-> r]
  ELSE DecimalFloor(10 * q + ((10 * r) \div d), (10 * r) % d, d, digits - 1)

\* The number value.toFixed(precision) stands for: the nearest multiple of
\* 10^-precision, a tie going away from zero.
ToFixed(value, precision) ==
  IF value.d = 0 THEN value
  ELSE LET a == Abs(value.n)
           f == DecimalFloor(a \div value.d, a % value.d, value.d, precision)
           k == IF 2 * f.r >= value.d THEN f.q + 1 ELSE f.q
       IN Q(Sgn(value.n) * k, Pow10(precision))

Precision(key) == IF key \in {"X", "Y", "Z"} THEN 3 ELSE IF key = "E" THEN 5 ELSE 0

stringifySimpleCommand(command) ==
  InstrLine(FALSE, command.command,
            [i \in 1..Len(command.args) |->
               Tok(command.args[i].k,
                   ToFixed(command.args[i].v, Precision(command.args[i].k)),
                   Precision(command.args[i].k))],
            command.args = <<>>, command.comment # "", command.comment)

stringifyCommand(command) ==
  CASE command.type = "comment" -> CommentLine(command.comment)
    [] command.type = "simple" -> stringifySimpleCommand(command)
    [] OTHER -> OtherLine(command.content)

----------------------------------------------------------------------------
(* GcodeVm (src/unnamed/part_004, lines 289-522).  A machine state is a    *)
(* value; executing a command yields another value.                        *)

NewGcodeVm ==
  [positionMode |-> "absolute", extrusionMode |-> "relative",
   logicalPosition |-> PointUnknown, extrusion |-> Zero, feedRate |-> Zero,
   didExtrudeOnLastMove |-> FALSE, physicalOffset |-> PointZero,
   physicalEOffset |-> Zero]

logicalPositionKnown(vm) == PointIsFinite(vm.logicalPosition)

\* PhysicalPositionThrows that looks at the X coordinate only.
PhysicalPositionThrowsOnUnknownX(vm) == ~IsFiniteNum(vm.logicalPosition.x)

\* The getter throws when the logical position is unknown.
PhysicalPositionThrows(vm) == ~logicalPositionKnown(vm)

physicalPosition(vm) == AddVector(vm.logicalPosition, vm.physicalOffset)

physicalExtrusion(vm) == QAdd(vm.extrusion, vm.physicalEOffset)

executeSetExtrusionModeCommand(vm, command) ==
  [vm EXCEPT !.extrusionMode = IF command.command = "M82" THEN "absolute" ELSE "relative"]

\* SetPositionAxis without the adjustment of the physical offset.
SetPositionAxisKeepingOffset(this, clone, args, axis) ==
  IF HasArg(args, ArgsKey(axis))
  THEN [clone EXCEPT !.logicalPosition[axis] = ArgVal(args, ArgsKey(axis))]
  ELSE clone

\* One turn of the loop over the axes of executeSetPositionCommand.
SetPositionAxis(this, clone, args, axis) ==
  IF HasArg(args, ArgsKey(axis))
  THEN LET declaredPosition == ArgVal(args, ArgsKey(axis))
           delta == QSub(declaredPosition, this.logicalPosition[axis])
       IN [clone EXCEPT !.physicalOffset[axis] = QSub(this.physicalOffset[axis], delta),
                        !.logicalPosition[axis] = declaredPosition]
  ELSE clone

\* executeSetPositionCommand without the adjustment of the physical E offset.
executeSetPositionCommandKeepingEOffset(vm, command) ==
  LET args == command.args
      cz == SetPositionAxis(vm, SetPositionAxis(vm, SetPositionAxis(vm, vm, args, "x"),
                                                args, "y"),
                            args, "z")
  IN IF HasArg(args, "E") THEN [cz EXCEPT !.extrusion = ArgVal(args, "E")] ELSE cz

executeSetPositionCommand(vm, command) ==
  LET args == command.args
      cx == SetPositionAxis(vm, vm, args, "x")
      cy == SetPositionAxis(vm, cx, args, "y")
      cz == SetPositionAxis(vm, cy, args, "z")
  IN IF HasArg(args, "E")
     THEN LET declaredExtrusion == ArgVal(args, "E")
              delta == QSub(declaredExtrusion, vm.extrusion)
          IN [cz EXCEPT !.physicalEOffset = QSub(vm.physicalEOffset, delta),
                        !.extrusion = declaredExtrusion]
     ELSE cz

\* executeSetPositionModeCommand that takes the logical frame for the
\* physical one again.
executeSetPositionModeCommandDroppingOffset(vm, command) ==
  [vm EXCEPT !.positionMode = IF command.command = "G90" THEN "absolute" ELSE "relative",
             !.physicalOffset = PointZero]

executeSetPositionModeCommand(vm, command) ==
  [vm EXCEPT !.positionMode = IF command.command = "G90" THEN "absolute" ELSE "relative"]

\* HomeThrows for an executeHomeCommand that accepts the key "0".
HomeNeverThrows(command) == FALSE

\* executeHomeCommand throws on the argument key "0".
HomeThrows(command) == HasArg(command.args, "0")

\* HomeAxis that zeroes the axis whether or not the command names it.
HomeAxisAlways(clone, args, axis) ==
  [clone EXCEPT !.physicalOffset[axis] = Zero, !.logicalPosition[axis] = Zero]

HomeAxis(clone, args, axis) ==
  IF HasArg(args, ArgsKey(axis))
  THEN [clone EXCEPT !.physicalOffset[axis] = Zero, !.logicalPosition[axis] = Zero]
  ELSE clone

executeHomeCommand(vm, command) ==
  LET args == command.args
      anyAxisHomed == \E axis \in Axes : HasArg(args, ArgsKey(axis))
  IN IF anyAxisHomed
     THEN HomeAxis(HomeAxis(HomeAxis(vm, args, "x"), args, "y"), args, "z")
     ELSE [vm EXCEPT !.physicalOffset = PointZero, !.logicalPosition = PointZero]

executeArcCommand(vm) ==
  [vm EXCEPT !.logicalPosition.x = Inf, !.logicalPosition.y = Inf]

\* executeMoveCommand that adds the arguments in either position mode.
executeMoveCommandAlwaysRelative(vm, command) ==
  LET args == command.args
      pos == AddVector(vm.logicalPosition,
                       Pt(ArgOr(args, "X", Zero), ArgOr(args, "Y", Zero),
                          ArgOr(args, "Z", Zero)))
      ext == IF vm.extrusionMode = "absolute"
             THEN ArgOr(args, "E", vm.extrusion)
             ELSE QAdd(vm.extrusion, ArgOr(args, "E", Zero))
  IN [vm EXCEPT !.logicalPosition = pos, !.extrusion = ext]

executeMoveCommand(vm, command) ==
  LET args == command.args
      pos == IF vm.positionMode = "absolute"
             THEN Pt(ArgOr(args, "X", vm.logicalPosition.x),
                     ArgOr(args, "Y", vm.logicalPosition.y),
                     ArgOr(args, "Z", vm.logicalPosition.z))
             ELSE AddVector(vm.logicalPosition,
                            Pt(ArgOr(args, "X", Zero), ArgOr(args, "Y", Zero),
                               ArgOr(args, "Z", Zero)))
      ext == IF vm.extrusionMode = "absolute"
             THEN ArgOr(args, "E", vm.extrusion)
             ELSE QAdd(vm.extrusion, ArgOr(args, "E", Zero))
  IN [vm EXCEPT !.logicalPosition = pos, !.extrusion = ext]

rawExecuteSimpleCommand(vm, command) ==
  CASE command.command \in {"G0", "G1"} -> executeMoveCommand(vm, command)
    [] command.command \in {"G2", "G3"} -> executeArcCommand(vm)
    [] command.command = "G28" -> executeHomeCommand(vm, command)
    [] command.command \in {"G90", "G91"} -> executeSetPositionModeCommand(vm, command)
    [] command.command \in {"G92", "G92.1"} -> executeSetPositionCommand(vm, command)
    [] OTHER -> executeSetExtrusionModeCommand(vm, command)

\* executeSimpleCommand that also flags a move that keeps the extrusion.
executeSimpleCommandFlaggingNoLoss(vm, command) ==
  LET clone == rawExecuteSimpleCommand(vm, command)
  IN IF isMoveCommand(command)
     THEN [clone EXCEPT !.didExtrudeOnLastMove = ~QLt(clone.extrusion, vm.extrusion)]
     ELSE clone

executeSimpleCommand(vm, command) ==
  LET clone == rawExecuteSimpleCommand(vm, command)
  IN IF isMoveCommand(command)
     THEN [clone EXCEPT !.didExtrudeOnLastMove = QGt(clone.extrusion, vm.extrusion)]
     ELSE clone

\* executeCommand throws exactly when it runs a home command with key "0".
ExecuteThrows(command) ==
  command.type = "simple" /\ command.command = "G28" /\ HomeThrows(command)

executeCommand(vm, command) ==
  IF command.type = "simple" THEN executeSimpleCommand(vm, command) ELSE vm

executeLine(vm, gcodeLine) == executeCommand(vm, parseCommand(gcodeLine))

\* convertPhysicalPositionToLogical that adds the offset.
convertPhysicalPositionToLogicalAddingOffset(vm, p) == AddVector(p, vm.physicalOffset)

convertPhysicalPositionToLogical(vm, p) == AddVector(p, VMul(vm.physicalOffset, I(-1)))

----------------------------------------------------------------------------
(* Processor (src/src/lib/processor.ts).  params is the record of tuning   *)
(* parameters [layerHeight, overlap, loopTolerance, taperResolution];      *)
(* seamGap is read by no method.                                           *)

\* MAX_OVERLAP_LOOP_FRACTION = 1 / 3
MaxOverlapLoopFraction == Q(1, 3)

\* The states after each command of a sequence, the start state first.
RECURSIVE StatesAlong(_, _)
StatesAlong(vm, sequence) ==
  IF sequence = <<>> THEN <<vm>>
  ELSE <<vm>> \o StatesAlong(executeCommand(vm, Head(sequence)), Tail(sequence))

RECURSIVE ExecuteAll(_, _)
ExecuteAll(vm, sequence) ==
  IF sequence = <<>> THEN vm
  ELSE ExecuteAll(executeCommand(vm, Head(sequence)), Tail(sequence))

isExtrusionStart(vm, command) == QGt(executeCommand(vm, command).extrusion, vm.extrusion)

\* ConsumeLoop that puts the command that does not extrude back twice.
RECURSIVE ConsumeLoopPuttingBackTwice(_, _, _)
ConsumeLoopPuttingBackTwice(speculativeVm, result, stack) ==
  IF stack = <<>> THEN [result |-> result, stack |-> stack]
  ELSE LET nextCommand == stack[Len(stack)]
           popped == SubSeq(stack, 1, Len(stack) - 1)
           nextVm == executeCommand(speculativeVm, nextCommand)
       IN IF nextVm.didExtrudeOnLastMove
          THEN ConsumeLoopPuttingBackTwice(nextVm, Append(result, nextCommand), popped)
          ELSE [result |-> result, stack |-> Append(Append(popped, nextCommand), nextCommand)]

\* ConsumeLoop that does not put the command that does not extrude back.
RECURSIVE ConsumeLoopDroppingLast(_, _, _)
ConsumeLoopDroppingLast(speculativeVm, result, stack) ==
  IF stack = <<>> THEN [result |-> result, stack |-> stack]
  ELSE LET nextCommand == stack[Len(stack)]
           popped == SubSeq(stack, 1, Len(stack) - 1)
           nextVm == executeCommand(speculativeVm, nextCommand)
       IN IF nextVm.didExtrudeOnLastMove
          THEN ConsumeLoopDroppingLast(nextVm, Append(result, nextCommand), popped)
          ELSE [result |-> result, stack |-> popped]

\* The loop of consumeWhileExtruding; the top of inputStack is its last
\* element.  Yields the run and the stack left.
RECURSIVE ConsumeLoop(_, _, _)
ConsumeLoop(speculativeVm, result, stack) ==
  IF stack = <<>> THEN [result |-> result, stack |-> stack]
  ELSE LET nextCommand == stack[Len(stack)]
           popped == SubSeq(stack, 1, Len(stack) - 1)
           nextVm == executeCommand(speculativeVm, nextCommand)
       IN IF nextVm.didExtrudeOnLastMove
          THEN ConsumeLoop(nextVm, Append(result, nextCommand), popped)
          ELSE [result |-> result, stack |-> Append(popped, nextCommand)]

consumeWhileExtruding(vm, firstCommand, stack) ==
  ConsumeLoop(executeCommand(vm, firstCommand), <<firstCommand>>, stack)

\* IsLoopThrows with the physical position of the start state queried first,
\* whether or not the logical position is known.
IsLoopThrowsQueryingStart(vm, sequence) ==
  PhysicalPositionThrows(vm) \/ PhysicalPositionThrows(ExecuteAll(vm, sequence))

\* isLoop queries the physical position of the end state.
IsLoopThrows(vm, sequence) ==
  logicalPositionKnown(vm) /\ PhysicalPositionThrows(ExecuteAll(vm, sequence))

\* isLoop without the comparison with the tolerance.
isLoopIgnoringTolerance(vm, sequence, loopTolerance) == logicalPositionKnown(vm)

\* isLoop that takes a distance equal to the tolerance for a loop as well.
isLoopAtTolerance(vm, sequence, loopTolerance) ==
  IF ~logicalPositionKnown(vm) THEN FALSE
  ELSE QLe(DistanceTo(physicalPosition(ExecuteAll(vm, sequence)), physicalPosition(vm)),
           loopTolerance)

isLoop(vm, sequence, loopTolerance) ==
  IF ~logicalPositionKnown(vm) THEN FALSE
  ELSE QLt(DistanceTo(physicalPosition(ExecuteAll(vm, sequence)), physicalPosition(vm)),
           loopTolerance)

\* calculateSequenceLength queries the physical position of every state.
CalculateSequenceLengthThrows(vm, sequence) ==
  LET states == StatesAlong(vm, sequence)
  IN \E i \in 1..Len(states) : PhysicalPositionThrows(states[i])

RECURSIVE SumDistances(_, _, _)
SumDistances(vm, sequence, totalDistance) ==
  IF sequence = <<>> THEN totalDistance
  ELSE LET nextVm == executeCommand(vm, Head(sequence))
           distance == DistanceTo(physicalPosition(vm), physicalPosition(nextVm))
       IN SumDistances(nextVm, Tail(sequence), QAdd(totalDistance, distance))

calculateSequenceLength(vm, sequence) == SumDistances(vm, sequence, Zero)

\* The move of splitTaperSection that crosses the overlap: the synthetic
\* move to the crossing point and the end point with the rest of the
\* extrusion.
SplitBoundaryMove(st, curCommand, nextVm, nextPoint, segmentLength, overlap) ==
  Bind(QSub(overlap, st.accumDistance), LAMBDA splitDistance :
  Bind(QSub(nextVm.extrusion, st.vm.extrusion), LAMBDA totalExtrusion :
  Bind(QMul(totalExtrusion, QDiv(splitDistance, segmentLength)), LAMBDA splitExtrusion :
  Bind(convertPhysicalPositionToLogical(
         st.vm,
         AddVector(st.prevPoint,
                   VMul(Normalize(Subtract(nextPoint, st.prevPoint)), splitDistance))),
       LAMBDA splitLogicalPosition :
    LET adjustedEndExtrusion == QSub(totalExtrusion, splitExtrusion)
        splitPointMove ==
          Simple(curCommand.command,
                 SetArg(SetArg(SetArg(SetArg(curCommand.args, "X", splitLogicalPosition.x),
                                      "Y", splitLogicalPosition.y),
                               "Z", splitLogicalPosition.z),
                        "E", splitExtrusion),
                 "")
        adjustedEndPoint ==
          [curCommand EXCEPT !.args = SetArg(curCommand.args, "E", adjustedEndExtrusion)]
    IN [st EXCEPT !.isTapering = FALSE,
                  !.taperSection = Append(@, splitPointMove),
                  !.nonTaperSection = Append(@, adjustedEndPoint),
                  !.prevPoint = nextPoint,
                  !.vm = nextVm]))))

\* A move met by splitTaperSection while tapering.
SplitMove(st, curCommand, nextVm, overlap) ==
  IF PhysicalPositionThrows(nextVm) THEN [st EXCEPT !.fatal = TRUE]
  ELSE Bind(physicalPosition(nextVm), LAMBDA nextPoint :
       Bind(DistanceTo(st.prevPoint, nextPoint), LAMBDA segmentLength :
         IF QLt(QAdd(st.accumDistance, segmentLength), overlap)
         THEN [st EXCEPT !.accumDistance = QAdd(@, segmentLength),
                         !.taperSection = Append(@, curCommand),
                         !.prevPoint = nextPoint,
                         !.vm = nextVm]
         ELSE SplitBoundaryMove(st, curCommand, nextVm, nextPoint, segmentLength, overlap)))

\* One turn of the loop of splitTaperSection.  A non-move command met while
\* tapering is kept and the loop continues without updating vm.
SplitStep(st, curCommand, overlap) ==
  Bind(executeCommand(st.vm, curCommand), LAMBDA nextVm :
    IF st.isTapering
    THEN IF ~isMoveCommand(curCommand)
         THEN [st EXCEPT !.taperSection = Append(@, curCommand)]
         ELSE SplitMove(st, curCommand, nextVm, overlap)
    ELSE [st EXCEPT !.nonTaperSection = Append(@, curCommand), !.vm = nextVm])

RECURSIVE SplitLoop(_, _, _)
SplitLoop(st, sequence, overlap) ==
  IF sequence = <<>> \/ st.fatal THEN st
  ELSE SplitLoop(SplitStep(st, Head(sequence), overlap), Tail(sequence), overlap)

splitTaperSection(vm, sequence, overlap) ==
  IF PhysicalPositionThrows(vm)
  THEN [fatal |-> TRUE, taperSection |-> <<>>, nonTaperSection |-> <<>>]
  ELSE Bind(SplitLoop([vm |-> vm, accumDistance |-> Zero,
                       prevPoint |-> physicalPosition(vm), isTapering |-> TRUE,
                       taperSection |-> <<>>, nonTaperSection |-> <<>>,
                       fatal |-> FALSE],
                      sequence, overlap),
            LAMBDA st : [fatal |-> st.fatal, taperSection |-> st.taperSection,
                         nonTaperSection |-> st.nonTaperSection])

BeginDividedMove == Comment("Beginning of divided move")

EndDividedMove == Comment("End of divided move")

\* The number of turns of a loop "for (i = 0; i < stepCount; i++)".
LoopCount(stepCount) == IF stepCount.d = 1 /\ stepCount.n > 0 THEN stepCount.n ELSE 0

\* The i-th command pushed by the loop of divideMove.
StepCommand(vm, curCommand, startPoint, stepVector, stepExtrusion, i) ==
  Bind(convertPhysicalPositionToLogical(vm, AddVector(startPoint, VMul(stepVector, I(i)))),
       LAMBDA logicalPosition :
         [curCommand EXCEPT !.args =
            SetArg(SetArg(SetArg(SetArg(curCommand.args, "X", logicalPosition.x),
                                 "Y", logicalPosition.y),
                          "Z", logicalPosition.z),
                   "E", stepExtrusion)])

divideMove(vm, curCommand, resolution) ==
  Bind(executeCommand(vm, curCommand), LAMBDA nextVm :
  Bind(physicalPosition(vm), LAMBDA startPoint :
  Bind(physicalPosition(nextVm), LAMBDA endPoint :
  Bind(DistanceTo(startPoint, endPoint), LAMBDA distance :
  Bind(QCeil(QDiv(distance, resolution)), LAMBDA stepCount :
  Bind(VMul(Normalize(Subtract(endPoint, startPoint)), QDiv(distance, stepCount)),
       LAMBDA stepVector :
  Bind(QDiv(QSub(nextVm.extrusion, vm.extrusion), stepCount), LAMBDA stepExtrusion :
    <<BeginDividedMove>>
      \o [j \in 1..LoopCount(stepCount) |->
            StepCommand(vm, curCommand, startPoint, stepVector, stepExtrusion, j - 1)]
      \o <<EndDividedMove>>)))))))

DivideMoveThrows(vm, curCommand) ==
  PhysicalPositionThrows(vm) \/ PhysicalPositionThrows(executeCommand(vm, curCommand))

RECURSIVE DivideLoop(_, _, _, _)
DivideLoop(vm, sequence, resolution, results) ==
  IF sequence = <<>> THEN [fatal |-> FALSE, results |-> results]
  ELSE IF ~isMoveCommand(Head(sequence))
  THEN DivideLoop(executeCommand(vm, Head(sequence)), Tail(sequence), resolution,
                  Append(results, Head(sequence)))
  ELSE IF DivideMoveThrows(vm, Head(sequence))
  THEN [fatal |-> TRUE, results |-> results]
  ELSE DivideLoop(executeCommand(vm, Head(sequence)), Tail(sequence), resolution,
                  results \o divideMove(vm, Head(sequence), resolution))

divideSequence(vm, sequence, resolution) == DivideLoop(vm, sequence, resolution, <<>>)

\* The command makeStartingTaper returns for a move.
StartingTaperMove(st, curCommand, nextVm, nextPoint, t, layerHeight, minSafeZ) ==
  Bind(QMax(QSub(nextPoint.z, QMul(QSub(One, t), layerHeight)), minSafeZ), LAMBDA newZ :
  Bind(convertPhysicalPositionToLogical(st.vm, Pt(nextPoint.x, nextPoint.y, newZ)),
       LAMBDA logicalPosition :
    [curCommand EXCEPT !.args =
       SetArg(SetArg(curCommand.args, "Z", logicalPosition.z),
              "E", QMul(t, QSub(nextVm.extrusion, st.vm.extrusion)))]))

\* One turn of the map of makeStartingTaper.
StartingTaperStep(st, curCommand, overlap, layerHeight, minSafeZ) ==
  Bind(executeCommand(st.vm, curCommand), LAMBDA nextVm :
    IF ~isMoveCommand(curCommand)
    THEN [st EXCEPT !.vm = nextVm, !.results = Append(@, curCommand)]
    ELSE IF PhysicalPositionThrows(nextVm) THEN [st EXCEPT !.fatal = TRUE]
    ELSE Bind(physicalPosition(nextVm), LAMBDA nextPoint :
         Bind(QAdd(st.accumDistance, DistanceTo(st.startPoint, nextPoint)),
              LAMBDA accumDistance :
           [st EXCEPT !.vm = nextVm, !.startPoint = nextPoint,
                      !.accumDistance = accumDistance,
                      !.results =
                        Append(@, StartingTaperMove(st, curCommand, nextVm, nextPoint,
                                                    QDiv(accumDistance, overlap),
                                                    layerHeight, minSafeZ))])))

RECURSIVE StartingTaperLoop(_, _, _, _, _)
StartingTaperLoop(st, taperSection, overlap, layerHeight, minSafeZ) ==
  IF taperSection = <<>> \/ st.fatal THEN st
  ELSE StartingTaperLoop(
         StartingTaperStep(st, Head(taperSection), overlap, layerHeight, minSafeZ),
         Tail(taperSection), overlap, layerHeight, minSafeZ)

makeStartingTaper(vm, taperSection, overlap, layerHeight, minSafeZ) ==
  IF PhysicalPositionThrows(vm) THEN [fatal |-> TRUE, results |-> <<>>]
  ELSE Bind(StartingTaperLoop([vm |-> vm, startPoint |-> physicalPosition(vm),
                               accumDistance |-> Zero, results |-> <<>>,
                               fatal |-> FALSE],
                              taperSection, overlap, layerHeight, minSafeZ),
            LAMBDA st : [fatal |-> st.fatal, results |-> st.results])

\* The commands for which makeEndingTaper throws CoordinateSystemChangeError.
IsCoordinateSystemChange(curCommand) ==
  curCommand.type = "simple"
    /\ curCommand.command \in {codes.setPosition, codes.relative, codes.home}

\* The command makeEndingTaper pushes for a move.
EndingTaperMove(st, curCommand, nextVm, nextPoint, t) ==
  Bind(convertPhysicalPositionToLogical(st.vm, nextPoint), LAMBDA logicalPosition :
    [curCommand EXCEPT !.args =
       SetArg(SetArg(SetArg(SetArg(curCommand.args, "X", logicalPosition.x),
                            "Y", logicalPosition.y),
                     "Z", logicalPosition.z),
              "E", QMul(QSub(One, t), QSub(nextVm.extrusion, st.vm.extrusion)))])

\* EndingTaperStep that keeps the commands that are no moves.
EndingTaperStepKeepingNonMoves(st, curCommand, overlap) ==
  Bind(executeCommand(st.vm, curCommand), LAMBDA nextVm :
    IF ~isMoveCommand(curCommand)
    THEN IF IsCoordinateSystemChange(curCommand)
         THEN [st EXCEPT !.coordinateSystemChange = TRUE]
         ELSE [st EXCEPT !.vm = nextVm, !.results = Append(@, curCommand)]
    ELSE IF PhysicalPositionThrows(nextVm) THEN [st EXCEPT !.fatal = TRUE]
    ELSE Bind(physicalPosition(nextVm), LAMBDA nextPoint :
         Bind(QAdd(st.accumDistance, DistanceTo(st.startPoint, nextPoint)),
              LAMBDA accumDistance :
           [st EXCEPT !.vm = nextVm, !.startPoint = nextPoint,
                      !.accumDistance = accumDistance,
                      !.results =
                        Append(@, EndingTaperMove(st, curCommand, nextVm, nextPoint,
                                                  QDiv(accumDistance, overlap)))])))

\* One turn of the loop of makeEndingTaper.
EndingTaperStep(st, curCommand, overlap) ==
  Bind(executeCommand(st.vm, curCommand), LAMBDA nextVm :
    IF ~isMoveCommand(curCommand)
    THEN IF IsCoordinateSystemChange(curCommand)
         THEN [st EXCEPT !.coordinateSystemChange = TRUE]
         ELSE [st EXCEPT !.vm = nextVm]
    ELSE IF PhysicalPositionThrows(nextVm) THEN [st EXCEPT !.fatal = TRUE]
    ELSE Bind(physicalPosition(nextVm), LAMBDA nextPoint :
         Bind(QAdd(st.accumDistance, DistanceTo(st.startPoint, nextPoint)),
              LAMBDA accumDistance :
           [st EXCEPT !.vm = nextVm, !.startPoint = nextPoint,
                      !.accumDistance = accumDistance,
                      !.results =
                        Append(@, EndingTaperMove(st, curCommand, nextVm, nextPoint,
                                                  QDiv(accumDistance, overlap)))])))

RECURSIVE EndingTaperLoop(_, _, _)
EndingTaperLoop(st, taperSection, overlap) ==
  IF taperSection = <<>> \/ st.fatal \/ st.coordinateSystemChange THEN st
  ELSE EndingTaperLoop(EndingTaperStep(st, Head(taperSection), overlap),
                       Tail(taperSection), overlap)

makeEndingTaper(vm, taperSection, overlap) ==
  IF PhysicalPositionThrows(vm)
  THEN [fatal |-> TRUE, coordinateSystemChange |-> FALSE, results |-> <<>>]
  ELSE Bind(EndingTaperLoop([vm |-> vm, startPoint |-> physicalPosition(vm),
                             accumDistance |-> Zero, results |-> <<>>,
                             fatal |-> FALSE, coordinateSystemChange |-> FALSE],
                            taperSection, overlap),
            LAMBDA st : [fatal |-> st.fatal,
                         coordinateSystemChange |-> st.coordinateSystemChange,
                         results |-> st.results])

BeginningOfTaperedLoop == Comment("Beginning of tapered loop")

EndOfTaperedLoop == Comment("End of tapered loop")

\* OverlappedSequence with the ending taper put before the remainder.
OverlappedSequenceEndingFirst(split, divided, starting, ending) ==
  IF split.fatal \/ divided.fatal \/ starting.fatal \/ ending.fatal
  THEN [outcome |-> "fatal", sequence |-> <<>>]
  ELSE IF ending.coordinateSystemChange
  THEN [outcome |-> "skip", sequence |-> <<>>]
  ELSE [outcome |-> "ok",
        sequence |-> <<BeginningOfTaperedLoop>> \o starting.results
                       \o ending.results \o split.nonTaperSection
                       \o <<EndOfTaperedLoop>>]

\* What createOverlappedSequence returns, or the error it ends with:
\* outcome "ok" with the sequence, "skip" when CoordinateSystemChangeError
\* is thrown, "fatal" for any other error.
OverlappedSequence(split, divided, starting, ending) ==
  IF split.fatal \/ divided.fatal \/ starting.fatal \/ ending.fatal
  THEN [outcome |-> "fatal", sequence |-> <<>>]
  ELSE IF ending.coordinateSystemChange
  THEN [outcome |-> "skip", sequence |-> <<>>]
  ELSE [outcome |-> "ok",
        sequence |-> <<BeginningOfTaperedLoop>> \o starting.results
                       \o split.nonTaperSection \o ending.results
                       \o <<EndOfTaperedLoop>>]

createOverlappedSequence(vm, originalExtrusionSequence, overlap, config, floorZ) ==
  Bind(splitTaperSection(vm, originalExtrusionSequence, overlap), LAMBDA split :
  Bind(divideSequence(vm, split.taperSection, config.taperResolution), LAMBDA divided :
  Bind(makeStartingTaper(vm, divided.results, overlap, config.layerHeight, floorZ),
       LAMBDA starting :
  Bind(makeEndingTaper(ExecuteAll(vm, starting.results \o split.nonTaperSection),
                       divided.results, overlap),
       LAMBDA ending : OverlappedSequence(split, divided, starting, ending)))))

\* EffectiveOverlap without the limit of a third of the loop.
EffectiveOverlapUncapped(config, totalLength) == config.overlap

\* The overlap nextExtrusionSequence passes on for a loop of a total length.
EffectiveOverlap(config, totalLength) ==
  QMin(config.overlap, QMul(MaxOverlapLoopFraction, totalLength))

\* The end of nextExtrusionSequence, from the try statement on.
TryOverlappedSequence(vm, originalExtrusionSequence, overlap, config, floorZ) ==
  Bind(createOverlappedSequence(vm, originalExtrusionSequence, overlap, config, floorZ),
       LAMBDA made :
         IF made.outcome = "ok"
         THEN [how |-> "scarfed", sequence |-> made.sequence, overlap |-> overlap]
         ELSE IF made.outcome = "skip"
         THEN [how |-> "fallback", sequence |-> originalExtrusionSequence,
               overlap |-> overlap]
         ELSE [how |-> "throw", sequence |-> <<>>, overlap |-> overlap])

\* ExtrusionSequenceFor that compares the length of the loop with the loop
\* tolerance, not with the taper resolution.
ExtrusionSequenceForShortByTolerance(vm, originalExtrusionSequence, config, floorZ) ==
  IF IsLoopThrows(vm, originalExtrusionSequence)
  THEN [how |-> "throw", sequence |-> <<>>, overlap |-> Zero]
  ELSE IF ~isLoop(vm, originalExtrusionSequence, config.loopTolerance)
  THEN [how |-> "notloop", sequence |-> originalExtrusionSequence, overlap |-> Zero]
  ELSE IF CalculateSequenceLengthThrows(vm, originalExtrusionSequence)
  THEN [how |-> "throw", sequence |-> <<>>, overlap |-> Zero]
  ELSE Bind(calculateSequenceLength(vm, originalExtrusionSequence), LAMBDA totalLength :
         IF QLt(totalLength, config.loopTolerance)
         THEN [how |-> "short", sequence |-> originalExtrusionSequence, overlap |-> Zero]
         ELSE TryOverlappedSequence(vm, originalExtrusionSequence,
                                    EffectiveOverlap(config, totalLength), config, floorZ))

\* nextExtrusionSequence once the run is consumed.  how says which return
\* was taken: "notloop", "short", "scarfed", "fallback", or "throw".
ExtrusionSequenceFor(vm, originalExtrusionSequence, config, floorZ) ==
  IF IsLoopThrows(vm, originalExtrusionSequence)
  THEN [how |-> "throw", sequence |-> <<>>, overlap |-> Zero]
  ELSE IF ~isLoop(vm, originalExtrusionSequence, config.loopTolerance)
  THEN [how |-> "notloop", sequence |-> originalExtrusionSequence, overlap |-> Zero]
  ELSE IF CalculateSequenceLengthThrows(vm, originalExtrusionSequence)
  THEN [how |-> "throw", sequence |-> <<>>, overlap |-> Zero]
  ELSE Bind(calculateSequenceLength(vm, originalExtrusionSequence), LAMBDA totalLength :
         IF QLt(totalLength, config.taperResolution)
         THEN [how |-> "short", sequence |-> originalExtrusionSequence, overlap |-> Zero]
         ELSE TryOverlappedSequence(vm, originalExtrusionSequence,
                                    EffectiveOverlap(config, totalLength), config, floorZ))

----------------------------------------------------------------------------
(* Input programs and configurations                                       *)

MaxFreeLines == 3

T(k, n) == Tok(k, I(n), 0)

LineHome == Instr("G28", <<>>)
LineExtrudeX1 == Instr("G1", <<T("X", 1), T("E", 1)>>)
LineExtrudeX3 == Instr("G1", <<T("X", 3), T("E", 1)>>)
LineExtrudeX0 == Instr("G1", <<T("X", 0), T("E", 1)>>)
LineExtrudeNearX0 == Instr("G1", <<Tok("X", Q(1, 16), 4), T("E", 1)>>)
LineExtrudeXm1 == Instr("G1", <<T("X", -1), T("E", 1)>>)
LineTravelX0 == Instr("G0", <<T("X", 0)>>)
LineZUp == Instr("G1", <<T("Z", 1)>>)
LineZDown == Instr("G1", <<T("Z", -1)>>)
LineResetE == Instr("G92", <<T("E", 0)>>)
LineResetX == Instr("G92", <<T("X", 2)>>)
LineResetZ == Instr("G92", <<T("Z", 5)>>)
LineResetNative == Instr("G92.1", <<>>)
LineRelative == Instr("G91", <<>>)
LineAbsolute == Instr("G90", <<>>)
LineArc == Instr("G2", <<T("X", 1), T("Y", 1)>>)
LineHomeTrusted == Instr("G28", <<Tok("0", Zero, -1)>>)
LineExtrudeOnly == Instr("G1", <<T("E", 1)>>)
LineRetract == Instr("G1", <<T("E", -1)>>)
LineComment == CommentLine("note")
LineSavePosition == OtherLine("G60")
LineRestorePosition == OtherLine("G61")

\* Lines a free program is made of.
FreeLines ==
  {LineHome, LineExtrudeX1, LineExtrudeX3, LineExtrudeX0, LineTravelX0, LineZUp,
   LineZDown, LineResetE, LineResetZ, LineResetNative, LineRelative, LineArc,
   LineComment, LineSavePosition, LineHomeTrusted}

\* Every sequence of 1..n lines of a set.
RECURSIVE SeqsUpTo(_, _)
SeqsUpTo(S, n) ==
  IF n = 0 THEN {<<>>}
  ELSE LET shorter == SeqsUpTo(S, n - 1)
       IN shorter \cup {Append(q, l) : q \in {r \in shorter : Len(r) = n - 1}, l \in S}

FreePrograms == SeqsUpTo(FreeLines, MaxFreeLines) \ {<<>>}

\* A run along the X axis and back, with an optional line before it, an
\* optional non-move line after its first move, and an optional line after.
Opt(S) == {<<>>} \cup {<<l>> : l \in S}

LoopPrograms ==
  {<<LineHome>> \o before \o <<LineExtrudeX1>> \o inside \o <<LineExtrudeX3>>
     \o <<closing>> \o after :
     before \in Opt({LineZUp, LineZDown, LineResetX, LineRelative}),
     inside \in Opt({LineComment, LineResetE, LineResetNative, LineRelative,
                     LineAbsolute, LineHome, LineSavePosition, LineResetZ,
                     LineExtrudeOnly}),
     closing \in {LineExtrudeX0, LineExtrudeNearX0, LineExtrudeX1, LineExtrudeXm1},
     after \in Opt({LineTravelX0, LineRestorePosition})}

\* Runs that end near their start after less than a taper step: moves that
\* only extrude and moves over 1/16, with an optional line that is no move
\* between them.
ShortLoopPrograms ==
  {<<LineHome, first>> \o inside \o <<second>> :
     first \in {LineExtrudeOnly, LineExtrudeNearX0},
     inside \in Opt({LineComment, LineResetE}),
     second \in {LineExtrudeOnly, LineExtrudeNearX0, LineExtrudeX0, LineTravelX0}}

\* A retraction, then the reset of the extrusion value that slicers write
\* after it, with or without a home first and with up to two lines after.
RetractionPrograms ==
  {before \o <<LineRetract, LineResetE>> \o after :
     before \in Opt({LineHome}),
     after \in Opt({LineComment, LineExtrudeX1, LineTravelX0})
               \cup {<<LineExtrudeX1, LineExtrudeX0>>, <<LineComment, LineExtrudeX1>>}}

Programs == FreePrograms \cup LoopPrograms \cup ShortLoopPrograms \cup RetractionPrograms

\* Two overlaps with a loop tolerance below the taper resolution, and one
\* configuration with a loop tolerance above it.
Configurations ==
  {[layerHeight |-> Q(1, 4), overlap |-> o, loopTolerance |-> Q(1, 8),
    taperResolution |-> Q(1, 2)] : o \in {I(1), I(3)}}
    \cup {[layerHeight |-> Q(1, 4), overlap |-> I(1), loopTolerance |-> I(3),
           taperResolution |-> Q(1, 2)]}

----------------------------------------------------------------------------
(* process(): the dry run of findMinimumSafeZ, then the main loop          *)

VARIABLES
  params,            \* the tuning parameters
  inputGcodeLines,   \* params.gcode.split('\n')
  pc,                \* "findMinimumSafeZ", "main", "done" (returned), "failed" (threw)
  dryIndex,          \* lines the dry run has executed
  dryVm,             \* the dry run's vm
  minSafeZ,
  vm,                \* the main loop's vm
  inputStack,        \* reversed: the next command is the last element
  outputGcodeLines,
  last,              \* what the latest turn of the main loop did
  trial,             \* SpecVm: the latest command run on a machine state, and its result
  heap,              \* SpecHeap: the Point and GcodeVm objects allocated so far
  origin,            \* SpecHeap: for each GcodeVm object, what it was made from
  applied,           \* SpecHeap: the latest executeCommand call
  text               \* SpecText: a line, the command parsed from it, the line written back

processVars ==
  <<params, inputGcodeLines, pc, dryIndex, dryVm, minSafeZ, vm, inputStack,
    outputGcodeLines, last>>

vmVars == <<trial>>

heapVars == <<heap, origin, applied>>

textVars == <<text>>

vars == <<processVars, vmVars, heapVars, textVars>>

Reverse(q) == [i \in 1..Len(q) |-> q[Len(q) + 1 - i]]

NoTurn ==
  [how |-> "none", startVm |-> NewGcodeVm, run |-> <<>>, sequence |-> <<>>,
   overlap |-> Zero]

\* No command run yet on a fresh machine state.
NoTrial ==
  [before |-> NewGcodeVm, command |-> Comment(""), after |-> NewGcodeVm,
   threw |-> FALSE, count |-> 0]

EmptyHeap == [points |-> <<>>, vms |-> <<>>]

NoCall == [this |-> 0, command |-> Comment(""), result |-> 0, count |-> 0]

\* No line in hand.
NoText ==
  [step |-> "none", line |-> OtherLine(""), command |-> Unknown(""), out |-> OtherLine("")]

\* The variables of the other specifications, which process() does not use.
ProcessOnly ==
  /\ trial = NoTrial
  /\ heap = EmptyHeap
  /\ origin = <<>>
  /\ applied = NoCall
  /\ text = NoText

Init ==
  /\ ProcessOnly
  /\ params \in Configurations
  /\ inputGcodeLines \in Programs
  /\ pc = "findMinimumSafeZ"
  /\ dryIndex = 0
  /\ dryVm = NewGcodeVm
  /\ minSafeZ = Zero
  /\ vm = NewGcodeVm
  /\ inputStack = <<>>
  /\ outputGcodeLines = <<>>
  /\ last = NoTurn

\* One turn of the loop of findMinimumSafeZ.
FindMinimumSafeZLine ==
  /\ pc = "findMinimumSafeZ"
  /\ dryIndex < Len(inputGcodeLines)
  /\ LET line == inputGcodeLines[dryIndex + 1]
         nextVm == executeLine(dryVm, line)
     IN IF ExecuteThrows(parseCommand(line))
        THEN /\ pc' = "failed"
             /\ UNCHANGED <<dryIndex, dryVm, minSafeZ>>
        ELSE /\ pc' = pc
             /\ dryIndex' = dryIndex + 1
             /\ dryVm' = nextVm
             /\ minSafeZ' = IF logicalPositionKnown(nextVm)
                            THEN QMin(minSafeZ, physicalPosition(nextVm).z)
                            ELSE minSafeZ
  /\ UNCHANGED <<params, inputGcodeLines, vm, inputStack, outputGcodeLines, last, vmVars, heapVars, textVars>>

\* The end of findMinimumSafeZ and the set-up of the main loop.
FindMinimumSafeZEnd ==
  /\ pc = "findMinimumSafeZ"
  /\ dryIndex = Len(inputGcodeLines)
  /\ IF ~IsFiniteNum(minSafeZ)
     THEN /\ pc' = "failed"
          /\ UNCHANGED <<vm, inputStack>>
     ELSE /\ pc' = "main"
          /\ vm' = NewGcodeVm
          /\ inputStack' =
               Reverse([i \in 1..Len(inputGcodeLines) |-> parseCommand(inputGcodeLines[i])])
  /\ UNCHANGED <<params, inputGcodeLines, dryIndex, dryVm, minSafeZ, outputGcodeLines, last, vmVars, heapVars, textVars>>

Stringified(sequence) == [i \in 1..Len(sequence) |-> stringifyCommand(sequence[i])]

\* EmitExtrusionSequence that runs the commands of the original run on vm,
\* not the commands it emits.
EmitExtrusionSequenceRunningOriginal(consumed, next) ==
  IF next.how = "throw"
  THEN /\ pc' = "failed"
       /\ inputStack' = consumed.stack
       /\ UNCHANGED <<vm, outputGcodeLines, last>>
  ELSE /\ pc' = pc
       /\ inputStack' = consumed.stack
       /\ vm' = ExecuteAll(vm, consumed.result)
       /\ outputGcodeLines' = outputGcodeLines \o Stringified(next.sequence)
       /\ last' = [how |-> next.how, startVm |-> vm, run |-> consumed.result,
                   sequence |-> next.sequence, overlap |-> next.overlap]

\* The turn of the main loop for a command that starts an extrusion run:
\* consumed is what consumeWhileExtruding yields, next what
\* nextExtrusionSequence then returns.
EmitExtrusionSequence(consumed, next) ==
  IF next.how = "throw"
  THEN /\ pc' = "failed"
       /\ inputStack' = consumed.stack
       /\ UNCHANGED <<vm, outputGcodeLines, last>>
  ELSE /\ pc' = pc
       /\ inputStack' = consumed.stack
       /\ vm' = ExecuteAll(vm, next.sequence)
       /\ outputGcodeLines' = outputGcodeLines \o Stringified(next.sequence)
       /\ last' = [how |-> next.how, startVm |-> vm, run |-> consumed.result,
                   sequence |-> next.sequence, overlap |-> next.overlap]

nextExtrusionSequence(currentCommand, rest) ==
  Bind(consumeWhileExtruding(vm, currentCommand, rest), LAMBDA consumed :
    EmitExtrusionSequence(consumed,
                          ExtrusionSequenceFor(vm, consumed.result, params, minSafeZ)))

\* One turn of the main loop of process().
ProcessCommand ==
  /\ pc = "main"
  /\ inputStack # <<>>
  /\ LET currentCommand == inputStack[Len(inputStack)]
         rest == SubSeq(inputStack, 1, Len(inputStack) - 1)
     IN IF isExtrusionStart(vm, currentCommand)
        THEN nextExtrusionSequence(currentCommand, rest)
        ELSE /\ pc' = pc
             /\ inputStack' = rest
             /\ vm' = executeCommand(vm, currentCommand)
             /\ outputGcodeLines' = Append(outputGcodeLines, stringifyCommand(currentCommand))
             /\ last' = [how |-> "plain", startVm |-> vm, run |-> <<currentCommand>>,
                         sequence |-> <<currentCommand>>, overlap |-> Zero]
  /\ UNCHANGED <<params, inputGcodeLines, dryIndex, dryVm, minSafeZ, vmVars, heapVars, textVars>>

\* The main loop ends and process() returns the joined output lines.
Return ==
  /\ pc = "main"
  /\ inputStack = <<>>
  /\ pc' = "done"
  /\ UNCHANGED <<params, inputGcodeLines, dryIndex, dryVm, minSafeZ, vm, inputStack,
                 outputGcodeLines, last, vmVars, heapVars, textVars>>

Next == FindMinimumSafeZLine \/ FindMinimumSafeZEnd \/ ProcessCommand \/ Return

Spec == Init /\ [][Next]_vars

\* What every step of Next does to pc and dryIndex.  Advance is enabled
\* exactly while the call is running, that is when Next is.
Advance ==
  /\ pc \in {"findMinimumSafeZ", "main"}
  /\ pc' \in {"findMinimumSafeZ", "main", "done", "failed"}
  /\ dryIndex' \in {dryIndex, dryIndex + 1}

\* process() is one synchronous call: while it is running it does not stay
\* for ever where it is.  Fairness is asked of Advance over pc and dryIndex
\* and not of Next over vars, which it follows from: a behaviour that stays
\* for ever in a state where the call is running is excluded, and nothing
\* else is.
FairSpec == Spec /\ WF_<<pc, dryIndex>>(Advance)

----------------------------------------------------------------------------
(* GcodeVm on its own: commands run one after another on a fresh machine   *)
(* state.                                                                  *)

MaxVmCommands == 3

VmMoveLines ==
  {Instr("G0", <<T("X", 10), T("Y", 10), T("Z", 10)>>),
   Instr("G0", <<T("X", 10), T("Y", 10), T("Z", 10), T("E", 4)>>),
   LineExtrudeX1, LineZDown, Instr("G1", <<T("E", 4)>>), LineRetract,
   Instr("G1", <<T("X", 2), T("E", 0)>>)}

VmSetPositionLines ==
  {Instr("G92", x \o y \o z) :
     x \in Opt({T("X", 11)}), y \in Opt({T("Y", 5)}), z \in Opt({T("Z", 7)})}
    \cup {Instr("G92", <<T("E", 10)>>), Instr("G92", <<T("X", 11), T("E", 10)>>),
          LineResetNative}

VmHomeLines ==
  {LineHome, Instr("G28", <<Tok("X", Zero, -1)>>), Instr("G28", <<Tok("Z", Zero, -1)>>),
   LineHomeTrusted}

\* The latest command, the state it ran on and the state it returned.  A
\* command that throws returns nothing: the state in hand stays.
RunCommand(command) ==
  /\ trial.count < MaxVmCommands
  /\ trial' = IF ExecuteThrows(command)
              THEN [before |-> trial.after, command |-> command, after |-> trial.after,
                    threw |-> TRUE, count |-> trial.count + 1]
              ELSE [before |-> trial.after, command |-> command,
                    after |-> executeCommand(trial.after, command),
                    threw |-> FALSE, count |-> trial.count + 1]
  /\ UNCHANGED <<processVars, heapVars, textVars>>

RunMove == \E line \in VmMoveLines : RunCommand(parseCommand(line))

RunArc == RunCommand(parseCommand(LineArc))

RunHome == \E line \in VmHomeLines : RunCommand(parseCommand(line))

RunSetPositionMode ==
  \E line \in {LineAbsolute, LineRelative} : RunCommand(parseCommand(line))

RunSetPosition == \E line \in VmSetPositionLines : RunCommand(parseCommand(line))

RunSetExtrusionMode ==
  \E line \in {Instr("M82", <<>>), Instr("M83", <<>>)} : RunCommand(parseCommand(line))

RunIgnored == \E line \in {LineComment, LineSavePosition} : RunCommand(parseCommand(line))

\* The variables of process(), which the other specifications do not use.
ProcessIdle ==
  /\ params \in {[layerHeight |-> Q(1, 4), overlap |-> One, loopTolerance |-> Q(1, 8),
                  taperResolution |-> Q(1, 2)]}
  /\ inputGcodeLines = <<>>
  /\ pc = "idle"
  /\ dryIndex = 0
  /\ dryVm = NewGcodeVm
  /\ minSafeZ = Zero
  /\ vm = NewGcodeVm
  /\ inputStack = <<>>
  /\ outputGcodeLines = <<>>
  /\ last = NoTurn

InitVm ==
  /\ ProcessIdle
  /\ trial = NoTrial
  /\ heap = EmptyHeap
  /\ origin = <<>>
  /\ applied = NoCall
  /\ text = NoText

NextVm ==
  RunMove \/ RunArc \/ RunHome \/ RunSetPositionMode \/ RunSetPosition
    \/ RunSetExtrusionMode \/ RunIgnored

SpecVm == InitVm /\ [][NextVm]_vars

----------------------------------------------------------------------------
(* GcodeVm as objects (src/unnamed/part_004, lines 336-521).  A GcodeVm    *)
(* object holds references to two Point objects; the methods allocate and  *)
(* write objects.  heap.points and heap.vms are the objects allocated so   *)
(* far; a reference is an index.  A method takes the heap and the          *)
(* reference this and yields the heap it leaves; the object it returns is  *)
(* the GcodeVm allocated last.                                             *)

MaxCalls == 2

\* new Point(x, y, z): the reference is Len(points) afterwards.
NewPoint(h, p) == [h EXCEPT !.points = Append(@, p)]

\* point[axis] = value
WritePoint(h, point, axis, value) == [h EXCEPT !.points[point][axis] = value]

\* object[field] = value
WriteField(h, object, field, value) == [h EXCEPT !.vms[object][field] = value]

\* The fields of an object as a machine state, its Points followed.
ValueOf(h, object) ==
  [h.vms[object] EXCEPT !.logicalPosition = h.points[@], !.physicalOffset = h.points[@]]

\* clone(), with the references of this copied and not the Points.
CloneSharingPoints(h, this) == [h EXCEPT !.vms = Append(@, h.vms[this])]

\* clone(): Object.assign copies the fields, then both Points are cloned.
Clone(h, this) ==
  Bind(NewPoint(h, h.points[h.vms[this].logicalPosition]), LAMBDA h1 :
  Bind(NewPoint(h1, h.points[h.vms[this].physicalOffset]), LAMBDA h2 :
    [h2 EXCEPT !.vms = Append(@, [h.vms[this] EXCEPT
                                    !.logicalPosition = Len(h1.points),
                                    !.physicalOffset = Len(h2.points)])]))

\* The object a method working on heap h returns: its clone.
Returned(h) == Len(h.vms)

HeapSetExtrusionMode(h, this, command) ==
  Bind(Clone(h, this), LAMBDA c :
    WriteField(c, Returned(c), "extrusionMode",
               IF command.command = "M82" THEN "absolute" ELSE "relative"))

\* One turn of the loop over the axes of executeSetPositionCommand, on the
\* heap c the turns before have left.
HeapSetPositionAxis(c, this, args, axis) ==
  IF HasArg(args, ArgsKey(axis))
  THEN Bind(ArgVal(args, ArgsKey(axis)), LAMBDA declaredPosition :
       Bind(QSub(declaredPosition, c.points[c.vms[this].logicalPosition][axis]),
            LAMBDA delta :
              WritePoint(
                WritePoint(c, c.vms[Returned(c)].physicalOffset, axis,
                           QSub(c.points[c.vms[this].physicalOffset][axis], delta)),
                c.vms[Returned(c)].logicalPosition, axis, declaredPosition)))
  ELSE c

HeapSetPositionExtrusion(c, this, args) ==
  IF HasArg(args, "E")
  THEN Bind(QSub(ArgVal(args, "E"), c.vms[this].extrusion), LAMBDA delta :
         WriteField(
           WriteField(c, Returned(c), "physicalEOffset",
                      QSub(c.vms[this].physicalEOffset, delta)),
           Returned(c), "extrusion", ArgVal(args, "E")))
  ELSE c

HeapSetPosition(h, this, command) ==
  HeapSetPositionExtrusion(
    HeapSetPositionAxis(
      HeapSetPositionAxis(
        HeapSetPositionAxis(Clone(h, this), this, command.args, "x"),
        this, command.args, "y"),
      this, command.args, "z"),
    this, command.args)

HeapSetPositionMode(h, this, command) ==
  Bind(Clone(h, this), LAMBDA c :
    WriteField(c, Returned(c), "positionMode",
               IF command.command = "G90" THEN "absolute" ELSE "relative"))

HeapHomeAxis(c, args, axis) ==
  IF HasArg(args, ArgsKey(axis))
  THEN WritePoint(WritePoint(c, c.vms[Returned(c)].physicalOffset, axis, Zero),
                  c.vms[Returned(c)].logicalPosition, axis, Zero)
  ELSE c

\* clone.physicalOffset = Point.zero; clone.logicalPosition = Point.zero
HeapHomeAll(c) ==
  Bind(NewPoint(c, PointZero), LAMBDA c1 :
  Bind(WriteField(c1, Returned(c1), "physicalOffset", Len(c1.points)), LAMBDA c2 :
  Bind(NewPoint(c2, PointZero), LAMBDA c3 :
    WriteField(c3, Returned(c3), "logicalPosition", Len(c3.points)))))

HeapHome(h, this, command) ==
  IF \E axis \in Axes : HasArg(command.args, ArgsKey(axis))
  THEN HeapHomeAxis(HeapHomeAxis(HeapHomeAxis(Clone(h, this), command.args, "x"),
                                 command.args, "y"),
                    command.args, "z")
  ELSE HeapHomeAll(Clone(h, this))

HeapArc(h, this) ==
  Bind(Clone(h, this), LAMBDA c :
    WritePoint(WritePoint(c, c.vms[Returned(c)].logicalPosition, "x", Inf),
               c.vms[Returned(c)].logicalPosition, "y", Inf))

\* The Point executeMoveCommand makes for the clone.
HeapMovePoint(c, this, args) ==
  Bind(c.points[c.vms[this].logicalPosition], LAMBDA logicalPosition :
    IF c.vms[this].positionMode = "absolute"
    THEN Pt(ArgOr(args, "X", logicalPosition.x), ArgOr(args, "Y", logicalPosition.y),
            ArgOr(args, "Z", logicalPosition.z))
    ELSE AddVector(logicalPosition,
                   Pt(ArgOr(args, "X", Zero), ArgOr(args, "Y", Zero),
                      ArgOr(args, "Z", Zero))))

HeapMove(h, this, command) ==
  Bind(Clone(h, this), LAMBDA c :
  Bind(NewPoint(c, HeapMovePoint(c, this, command.args)), LAMBDA c1 :
  Bind(WriteField(c1, Returned(c1), "logicalPosition", Len(c1.points)), LAMBDA c2 :
    WriteField(c2, Returned(c2), "extrusion",
               IF c2.vms[this].extrusionMode = "absolute"
               THEN ArgOr(command.args, "E", c2.vms[this].extrusion)
               ELSE QAdd(c2.vms[Returned(c2)].extrusion,
                         ArgOr(command.args, "E", Zero))))))

HeapRawExecuteSimple(h, this, command) ==
  CASE command.command \in {"G0", "G1"} -> HeapMove(h, this, command)
    [] command.command \in {"G2", "G3"} -> HeapArc(h, this)
    [] command.command = "G28" -> HeapHome(h, this, command)
    [] command.command \in {"G90", "G91"} -> HeapSetPositionMode(h, this, command)
    [] command.command \in {"G92", "G92.1"} -> HeapSetPosition(h, this, command)
    [] OTHER -> HeapSetExtrusionMode(h, this, command)

HeapExecuteSimple(h, this, command) ==
  Bind(HeapRawExecuteSimple(h, this, command), LAMBDA c :
    IF isMoveCommand(command)
    THEN WriteField(c, Returned(c), "didExtrudeOnLastMove",
                    QGt(c.vms[Returned(c)].extrusion, c.vms[this].extrusion))
    ELSE c)

\* executeCommand: the heap it leaves, and the object it returns (this
\* itself for a comment or an unknown command).
HeapExecute(h, this, command) ==
  IF command.type = "simple"
  THEN Bind(HeapExecuteSimple(h, this, command), LAMBDA c :
         [heap |-> c, result |-> Returned(c)])
  ELSE [heap |-> h, result |-> this]

\* new GcodeVm(): two Points and the object.
HeapNewGcodeVm ==
  [points |-> <<PointUnknown, PointZero>>,
   vms |-> <<[NewGcodeVm EXCEPT !.logicalPosition = 1, !.physicalOffset = 2]>>]

\* executeCommand(command) called on any object made so far.  origin keeps,
\* for every object, the object and the command it was made from and the
\* machine state the command yields from that object's state alone.
Call(command) ==
  /\ applied.count < MaxCalls
  /\ \E this \in 1..Len(heap.vms) :
       IF ExecuteThrows(command)
       THEN /\ applied' = [this |-> this, command |-> command, result |-> 0,
                           count |-> applied.count + 1]
            /\ UNCHANGED <<heap, origin>>
       ELSE Bind(HeapExecute(heap, this, command), LAMBDA done :
              /\ heap' = done.heap
              /\ applied' = [this |-> this, command |-> command, result |-> done.result,
                             count |-> applied.count + 1]
              /\ origin' = IF done.result = this THEN origin
                           ELSE Append(origin,
                                       [parent |-> this, command |-> command,
                                        value |-> executeCommand(origin[this].value,
                                                                 command)]))
  /\ UNCHANGED <<processVars, vmVars, textVars>>

CallMove == \E line \in VmMoveLines : Call(parseCommand(line))

CallArc == Call(parseCommand(LineArc))

CallHome == \E line \in VmHomeLines : Call(parseCommand(line))

CallSetPositionMode == \E line \in {LineAbsolute, LineRelative} : Call(parseCommand(line))

CallSetPosition == \E line \in VmSetPositionLines : Call(parseCommand(line))

CallSetExtrusionMode ==
  \E line \in {Instr("M82", <<>>), Instr("M83", <<>>)} : Call(parseCommand(line))

CallIgnored == \E line \in {LineComment, LineSavePosition} : Call(parseCommand(line))

InitHeap ==
  /\ ProcessIdle
  /\ trial = NoTrial
  /\ heap = HeapNewGcodeVm
  /\ origin = <<[parent |-> 0, command |-> Comment(""), value |-> NewGcodeVm]>>
  /\ applied = NoCall
  /\ text = NoText

NextHeap ==
  CallMove \/ CallArc \/ CallHome \/ CallSetPositionMode \/ CallSetPosition
    \/ CallSetExtrusionMode \/ CallIgnored

SpecHeap == InitHeap /\ [][NextHeap]_vars

----------------------------------------------------------------------------
(* The command model on its own: a line is parsed, and the command is      *)
(* written back.                                                           *)

MaxTokens == 2

\* Argument tokens as written: "X1.25", "X10", "Z1.2345", "E0.125", "F1500".
TextTokens ==
  {Tok("X", Q(5, 4), 2), T("X", 10), Tok("Z", Q(12345, 10000), 4),
   Tok("E", Q(1, 8), 3), T("F", 1500)}

TextCodes == {"G1", "G28", "G92.1", "M82"}

\* Lines with a recognized code: blanks before the code or not, up to
\* MaxTokens tokens, a blank at the end of the instruction or not, a
\* trailing comment or not.
TextInstructionLines ==
  {InstrLine(lead, code, toks, trail, semi, IF semi THEN comment ELSE "") :
     lead \in BOOLEAN, code \in TextCodes, toks \in SeqsUpTo(TextTokens, MaxTokens),
     trail \in BOOLEAN, semi \in BOOLEAN, comment \in {"note"}}

\* Full-line comments, a blank line, vendor and prohibited codes, and lines
\* whose leading token only starts with a recognized code.
TextOtherLines ==
  {CommentLine("note"), CommentLine(""), CommentLine(" G1 X1"), OtherLine(""),
   OtherLine("M1002 gcode_claim_action : 2"), OtherLine("G60"), OtherLine("G61"),
   OtherLine("G4 P100"), OtherLine("G1X5"),
   GluedLine("G1", "-X5"), GluedLine("G28", "(home)")}

TextLines == TextInstructionLines \cup TextOtherLines

\* parseCommand(line)
ParseLine ==
  /\ text.step = "line"
  /\ text' = [text EXCEPT !.step = "parsed", !.command = parseCommand(text.line)]
  /\ UNCHANGED <<processVars, vmVars, heapVars>>

\* stringifyCommand(command)
StringifyParsed ==
  /\ text.step = "parsed"
  /\ text' = [text EXCEPT !.step = "stringified", !.out = stringifyCommand(text.command)]
  /\ UNCHANGED <<processVars, vmVars, heapVars>>

InitText ==
  /\ ProcessIdle
  /\ trial = NoTrial
  /\ heap = EmptyHeap
  /\ origin = <<>>
  /\ applied = NoCall
  /\ \E line \in TextLines :
       text = [step |-> "line", line |-> line, command |-> Unknown(""), out |-> OtherLine("")]

NextText == ParseLine \/ StringifyParsed

SpecText == InitText /\ [][NextText]_vars

----------------------------------------------------------------------------
(* Properties of process() (under Spec)                                    *)

\* The turns of the main loop that consumed an extrusion run.
RunTurns == {"notloop", "short", "scarfed", "fallback"}

\* The state at the end of the run of the latest turn.
EndOfRun == ExecuteAll(last.startVm, last.run)

\* The last n lines of the output.
EmittedTail(n) ==
  SubSeq(outputGcodeLines, Len(outputGcodeLines) - n + 1, Len(outputGcodeLines))

\* The output read back as commands, and the states a machine goes through
\* when it runs them.
Emitted == [i \in 1..Len(outputGcodeLines) |-> parseCommand(outputGcodeLines[i])]

EmittedStates == StatesAlong(NewGcodeVm, Emitted)

\* The Z coordinate of a state in the physical frame.
PhysicalZ(state) == QAdd(state.logicalPosition.z, state.physicalOffset.z)

\* C1: when process() returns, every G0/G1 line of the output that carries a
\* Z argument under absolute positioning brings the machine to a physical Z
\* that is at least minSafeZ, the floor findMinimumSafeZ computed.
C1_EmittedZNeverBelowFloor ==
  pc = "done" =>
    \A i \in 1..Len(Emitted) :
      (isMoveCommand(Emitted[i]) /\ HasArg(Emitted[i].args, "Z")
         /\ EmittedStates[i].positionMode = "absolute")
        => QLe(minSafeZ, PhysicalZ(EmittedStates[i + 1]))

\* A line with a prohibited instruction, G60 or G61.
IsProhibitedLine(line) == line.kind = "other" /\ line.text \in {"G60", "G61"}

\* C2: process() never returns for a program that has a line with G60 or
\* G61.
C2_ProhibitedInstructionFails ==
  (\E i \in 1..Len(inputGcodeLines) : IsProhibitedLine(inputGcodeLines[i]))
    => pc # "done"

\* A G92 that declares Z.
IsResetZ(command) ==
  command.type = "simple" /\ command.command = codes.setPosition
    /\ HasArg(command.args, "Z")

\* C3: process() never returns for a program that has a G92 with a Z
\* argument.
C3_ResetZFails ==
  (\E i \in 1..Len(inputGcodeLines) : IsResetZ(parseCommand(inputGcodeLines[i])))
    => pc # "done"

\* The run of the latest turn ends, with both positions known, farther from
\* its start than the loop tolerance.
EndsFarFromStart ==
  /\ last.how \in RunTurns
  /\ logicalPositionKnown(last.startVm)
  /\ logicalPositionKnown(EndOfRun)
  /\ QGt(DistanceTo(physicalPosition(EndOfRun), physicalPosition(last.startVm)),
         params.loopTolerance)

IsLoopMarker(command) == command \in {BeginningOfTaperedLoop, EndOfTaperedLoop}

\* C6: a run that ends farther from its start than the loop tolerance is
\* emitted as it is: the sequence handed on is the run, command for command,
\* the output ends with exactly these commands stringified, and none of them
\* is a loop marker.
C6_NonLoopPassthrough ==
  EndsFarFromStart =>
    /\ last.sequence = last.run
    /\ EmittedTail(Len(last.run)) = Stringified(last.run)
    /\ \A i \in 1..Len(last.sequence) : ~IsLoopMarker(last.sequence[i])

\* A run of several commands that ended far from its start was emitted.
C6_Witness == EndsFarFromStart /\ Len(last.run) >= 2 /\ pc = "done"

\* The split of the run of the latest turn, and the taper section
\* makeStartingTaper and makeEndingTaper replay.
SplitOfRun == splitTaperSection(last.startVm, last.run, last.overlap)

ReplayedTaperSection ==
  divideSequence(last.startVm, SplitOfRun.taperSection, params.taperResolution).results

\* G92, G92.1, G90, G91, G28.
IsCoordinateSystemAltering(command) ==
  command.type = "simple"
    /\ command.command \in {codes.setPosition, codes.resetPositionToNative,
                            codes.absolute, codes.relative, codes.home}

\* C7: a loop whose replayed taper section holds a G92, G92.1, G90, G91 or
\* G28 is not scarfed: the run is emitted as it is.
C7_CoordinateSystemChangeFallsBack ==
  (last.how \in {"scarfed", "fallback"}
     /\ \E i \in 1..Len(ReplayedTaperSection) :
          IsCoordinateSystemAltering(ReplayedTaperSection[i]))
    => (last.how = "fallback" /\ last.sequence = last.run)

\* The starting taper and the ending taper of the run of the latest turn.
StartingTaperOfRun ==
  makeStartingTaper(last.startVm, ReplayedTaperSection, last.overlap,
                    params.layerHeight, minSafeZ).results

EndingTaperOfRun ==
  makeEndingTaper(ExecuteAll(last.startVm,
                             StartingTaperOfRun \o SplitOfRun.nonTaperSection),
                  ReplayedTaperSection, last.overlap).results

\* C8: the sequence emitted for a scarfed loop is the comment "Beginning of
\* tapered loop", the starting taper, the non-taper remainder, the ending
\* taper and the comment "End of tapered loop", in this order and nothing
\* else; the remainder is the tail of the run from the command after the
\* split on; the output ends with this sequence stringified.
C8_ScarfedLoopLayout ==
  last.how = "scarfed" =>
    /\ last.sequence =
         <<Comment("Beginning of tapered loop")>> \o StartingTaperOfRun
           \o SplitOfRun.nonTaperSection \o EndingTaperOfRun
           \o <<Comment("End of tapered loop")>>
    /\ Len(SplitOfRun.nonTaperSection) >= 1
    /\ Tail(SplitOfRun.nonTaperSection) =
         SubSeq(last.run, Len(last.run) - Len(SplitOfRun.nonTaperSection) + 2,
                Len(last.run))
    /\ EmittedTail(Len(last.sequence)) = Stringified(last.sequence)

\* A loop was scarfed, with moves in both tapers and in the remainder.
C8_Witness ==
  /\ last.how = "scarfed"
  /\ pc = "done"
  /\ \E i \in 1..Len(StartingTaperOfRun) : isMoveCommand(StartingTaperOfRun[i])
  /\ \E i \in 1..Len(EndingTaperOfRun) : isMoveCommand(EndingTaperOfRun[i])
  /\ Len(SplitOfRun.nonTaperSection) >= 2

\* The sum of the physical distances between consecutive states of the run
\* of the latest turn.
RECURSIVE SumOfSteps(_, _)
SumOfSteps(states, i) ==
  IF i >= Len(states) THEN Zero
  ELSE QAdd(DistanceTo(physicalPosition(states[i]), physicalPosition(states[i + 1])),
            SumOfSteps(states, i + 1))

LengthOfRun == SumOfSteps(StatesAlong(last.startVm, last.run), 1)

\* C9: the overlap handed to createOverlappedSequence, and by it to
\* splitTaperSection, makeStartingTaper and makeEndingTaper, is
\* min(params.overlap, L / 3) for the path length L of the run.
C9_EffectiveOverlap ==
  last.how \in {"scarfed", "fallback"} =>
    last.overlap = QMin(params.overlap, QDiv(LengthOfRun, I(3)))

\* A loop was scarfed with an overlap the third of its length limited.
C9_Witness ==
  /\ last.how = "scarfed"
  /\ QLt(last.overlap, params.overlap)
  /\ last.overlap = QDiv(LengthOfRun, I(3))

----------------------------------------------------------------------------
(* Properties of GcodeVm (under SpecVm)                                    *)

IsSetPosition(command) ==
  command.type = "simple"
    /\ command.command \in {codes.setPosition, codes.resetPositionToNative}

\* logicalPosition + physicalOffset, whether or not the position is known.
PhysicalPoint(state) == AddVector(state.logicalPosition, state.physicalOffset)

\* C4: a G92 run on a state whose logical position is known leaves the
\* physical position as it was, makes the logical coordinate of every axis
\* it declares the declared value and leaves the other logical coordinates
\* as they were.
C4_SetPositionKeepsPhysicalPosition ==
  (IsSetPosition(trial.command) /\ ~trial.threw /\ logicalPositionKnown(trial.before))
    => /\ logicalPositionKnown(trial.after)
       /\ physicalPosition(trial.after) = physicalPosition(trial.before)
       /\ \A axis \in Axes :
            trial.after.logicalPosition[axis] =
              IF HasArg(trial.command.args, ArgsKey(axis))
              THEN ArgVal(trial.command.args, ArgsKey(axis))
              ELSE trial.before.logicalPosition[axis]

\* G28, G0 X10 Y10 Z10, G92 X11 Y5 has given logical (11, 5, 10) and
\* physical (10, 10, 10).
C4_Witness ==
  /\ trial.command = parseCommand(Instr("G92", <<T("X", 11), T("Y", 5)>>))
  /\ trial.before.logicalPosition = Pt(I(10), I(10), I(10))
  /\ trial.after.logicalPosition = Pt(I(11), I(5), I(10))
  /\ physicalPosition(trial.after) = Pt(I(10), I(10), I(10))

IsSetPositionWithE(command) == IsSetPosition(command) /\ HasArg(command.args, "E")

\* C5 as stated: a G92 with an E argument makes the extrusion the declared
\* value and leaves the physical extrusion, the logical position and the
\* physical position as they were.
C5_SetExtrusionKeepsPosition ==
  (IsSetPositionWithE(trial.command) /\ ~trial.threw)
    => /\ trial.after.extrusion = ArgVal(trial.command.args, "E")
       /\ physicalExtrusion(trial.after) = physicalExtrusion(trial.before)
       /\ trial.after.logicalPosition = trial.before.logicalPosition
       /\ PhysicalPoint(trial.after) = PhysicalPoint(trial.before)

\* C5, amended: a G92 with an E argument makes the extrusion the declared
\* value and leaves the physical extrusion and the physical position as
\* they were; the logical position stays on every axis the command does not
\* declare as well, and becomes the declared value on the axes it declares.
C5_SetExtrusionKeepsPhysicalExtrusion ==
  (IsSetPositionWithE(trial.command) /\ ~trial.threw)
    => /\ trial.after.extrusion = ArgVal(trial.command.args, "E")
       /\ physicalExtrusion(trial.after) = physicalExtrusion(trial.before)
       /\ PhysicalPoint(trial.after) = PhysicalPoint(trial.before)
       /\ \A axis \in Axes :
            trial.after.logicalPosition[axis] =
              IF HasArg(trial.command.args, ArgsKey(axis))
              THEN ArgVal(trial.command.args, ArgsKey(axis))
              ELSE trial.before.logicalPosition[axis]

\* G92 E10 has run after an extruding move: the extrusion has changed and
\* the physical extrusion has not.
C5_Witness ==
  /\ trial.command = parseCommand(Instr("G92", <<T("E", 10)>>))
  /\ trial.before.extrusion = I(4)
  /\ trial.after.extrusion = I(10)
  /\ physicalExtrusion(trial.after) = I(4)
  /\ logicalPositionKnown(trial.before)

----------------------------------------------------------------------------
(* Properties of GcodeVm as objects (under SpecHeap)                       *)

\* C10: every GcodeVm object keeps, whatever is executed on it or on any
\* other object, the state it was made with, and that state is what its
\* command yields from the state of the object it was executed on.
C10_SnapshotsNeverChange ==
  /\ Len(origin) = Len(heap.vms)
  /\ \A object \in 1..Len(heap.vms) : ValueOf(heap, object) = origin[object].value

\* Two different commands were executed on one object, and each returned a
\* state that differs from the state of that object in its Points.
C10_Witness ==
  \E i, j \in 2..Len(heap.vms) :
    /\ i # j
    /\ origin[i].parent = origin[j].parent
    /\ origin[i].command # origin[j].command
    /\ ValueOf(heap, i).logicalPosition # ValueOf(heap, origin[i].parent).logicalPosition
    /\ ValueOf(heap, j).physicalOffset # ValueOf(heap, origin[j].parent).physicalOffset

----------------------------------------------------------------------------
----------------------------------------------------------------------------
(* Properties of the tapers (under Spec)                                   *)

\* The positions of the moves in the starting taper of the latest turn.
StartingTaperMoves ==
  {i \in 1..Len(StartingTaperOfRun) : isMoveCommand(StartingTaperOfRun[i])}

\* The states makeStartingTaper goes through: the replayed taper section
\* run from the start of the loop.
ReplayedStates == StatesAlong(last.startVm, ReplayedTaperSection)

\* The extrusion of the i-th command of the replayed taper section.
FullExtrusionOfStep(i) ==
  QSub(ReplayedStates[i + 1].extrusion, ReplayedStates[i].extrusion)

FirstOf(S) == CHOOSE i \in S : \A j \in S : i <= j

LastOf(S) == CHOOSE i \in S : \A j \in S : j <= i

\* C11: in the starting taper of a scarfed loop the first move has
\* extrusion 0 and the last move has the whole extrusion of the step of the
\* divided taper section it was made from (t = 1).
C11_StartingTaperBoundaryValues ==
  (last.how = "scarfed" /\ StartingTaperMoves # {}) =>
    /\ ArgVal(StartingTaperOfRun[FirstOf(StartingTaperMoves)].args, "E") = Zero
    /\ ArgVal(StartingTaperOfRun[LastOf(StartingTaperMoves)].args, "E") =
         FullExtrusionOfStep(LastOf(StartingTaperMoves))

\* The next turn of the main loop starts an extrusion run in a state whose
\* logical position is not known.
StartsRunAtUnknownPosition ==
  /\ pc = "main"
  /\ inputStack # <<>>
  /\ isExtrusionStart(vm, inputStack[Len(inputStack)])
  /\ ~logicalPositionKnown(vm)

\* C12: a turn that starts an extrusion run in a state whose logical
\* position is not known raises no error, takes the run for no loop and
\* emits the run as it is.
C12_UnknownStartIsNeverALoop ==
  [][StartsRunAtUnknownPosition =>
       /\ pc' = "main"
       /\ last'.how = "notloop"
       /\ last'.startVm = vm
       /\ last'.sequence = last'.run
       /\ outputGcodeLines' = outputGcodeLines \o Stringified(last'.run)]_vars

\* A run that started after homing and an arc, with X and Y unknown, was
\* emitted, and process() returned.
C12_Witness ==
  /\ pc = "done"
  /\ last.how = "notloop"
  /\ IsFiniteNum(last.startVm.logicalPosition.z)
  /\ ~IsFiniteNum(last.startVm.logicalPosition.x)
  /\ \E i \in 1..Len(inputGcodeLines) : inputGcodeLines[i] = LineArc

----------------------------------------------------------------------------
(* Fatal conditions of the dry run (under Spec)                            *)

\* A home command with the key "0" among its arguments: "G28 0".
IsTrustedHome(command) ==
  command.type = "simple" /\ command.command = codes.home /\ HasArg(command.args, "0")

\* C13: for a program with a G28 that has the argument key "0", the dry run
\* of findMinimumSafeZ never gets past that line, the main loop never
\* starts, process() never returns and nothing is ever put out.
C13_TrustedHomeIsFatal ==
  \A i \in 1..Len(inputGcodeLines) :
    IsTrustedHome(parseCommand(inputGcodeLines[i])) =>
      /\ pc \in {"findMinimumSafeZ", "failed"}
      /\ dryIndex < i
      /\ outputGcodeLines = <<>>

\* The dry run has failed on "G28 0" met in a state with a known position.
C13_Witness ==
  /\ pc = "failed"
  /\ dryIndex >= 1
  /\ dryIndex < Len(inputGcodeLines)
  /\ inputGcodeLines[dryIndex + 1] = LineHomeTrusted
  /\ logicalPositionKnown(dryVm)

----------------------------------------------------------------------------
(* Moves of GcodeVm (under SpecVm)                                         *)

\* The value a move gives a coordinate or the extrusion in a mode.
MovedValue(mode, args, key, before) ==
  IF mode = "absolute"
  THEN (IF HasArg(args, key) THEN ArgVal(args, key) ELSE before)
  ELSE QAdd(before, IF HasArg(args, key) THEN ArgVal(args, key) ELSE Zero)

\* The move with the other of the two move codes.
OtherMove(command) ==
  [command EXCEPT !.command = IF @ = codes.rapidMove THEN codes.linearMove
                              ELSE codes.rapidMove]

\* C14: a G0 or G1 gives every logical coordinate its argument (absolute
\* position mode; unchanged when there is none) or adds the argument to it
\* (relative position mode; 0 when there is none), does the same to the
\* extrusion by the extrusion mode, leaves the modes and both offsets alone,
\* so that the physical position is the new logical position plus the old
\* offset, and yields the state the other move code yields.
C14_MoveUpdatesPositionAndExtrusion ==
  (isMoveCommand(trial.command) /\ ~trial.threw) =>
    /\ \A axis \in Axes :
         trial.after.logicalPosition[axis] =
           MovedValue(trial.before.positionMode, trial.command.args, ArgsKey(axis),
                      trial.before.logicalPosition[axis])
    /\ trial.after.extrusion =
         MovedValue(trial.before.extrusionMode, trial.command.args, "E",
                    trial.before.extrusion)
    /\ trial.after.physicalOffset = trial.before.physicalOffset
    /\ trial.after.physicalEOffset = trial.before.physicalEOffset
    /\ trial.after.positionMode = trial.before.positionMode
    /\ trial.after.extrusionMode = trial.before.extrusionMode
    /\ PhysicalPoint(trial.after) =
         AddVector(trial.after.logicalPosition, trial.before.physicalOffset)
    /\ trial.after = executeCommand(trial.before, OtherMove(trial.command))

\* G28, G91, G1 X1 E1: a move in relative position mode from a known
\* position has added its argument.
C14_Witness ==
  /\ isMoveCommand(trial.command)
  /\ trial.before.positionMode = "relative"
  /\ trial.before.logicalPosition = PointZero
  /\ trial.after.logicalPosition = Pt(One, Zero, Zero)
  /\ trial.after.extrusion = One

----------------------------------------------------------------------------
(* Round trips of the command model (under SpecText)                       *)

\* A full-line comment, or a line whose leading token is no recognized code.
IsPassthroughLine(line) == line.kind \in {"comment", "other", "glued"}

\* C15: a full-line comment, a blank line and a line whose leading token is
\* no recognized code is written back exactly as it was read.
C15_PassthroughRoundTrip ==
  (text.step = "stringified" /\ IsPassthroughLine(text.line)) => text.out = text.line

Letters(toks) == {toks[i].k : i \in 1..Len(toks)}

\* The value of the last token with a letter.
LastValue(toks, k) ==
  toks[CHOOSE i \in 1..Len(toks) :
         toks[i].k = k /\ \A j \in 1..Len(toks) : toks[j].k = k => j <= i].v

\* a is b up to half a unit of the last of p decimals.
WithinPrecision(a, b, p) ==
  /\ QLe(QMul(I(2 * Pow10(p)), QSub(a, b)), One)
  /\ QLe(QMul(I(2 * Pow10(p)), QSub(b, a)), One)

TrailingComment(line) == IF line.semi THEN line.comment ELSE ""

\* C16: a line with a recognized code is written back with the same code,
\* the same argument letters, each with the value of its last occurrence up
\* to the precision of the letter (3 decimals for X, Y, Z, 5 for E, 0
\* otherwise), and the same trailing comment.
C16_RecognizedRoundTrip ==
  (text.step = "stringified" /\ text.line.kind = "instr") =>
    /\ text.out.kind = "instr"
    /\ text.out.code = text.line.code
    /\ Letters(text.out.toks) = Letters(text.line.toks)
    /\ \A i \in 1..Len(text.out.toks) :
         text.out.toks[i].k \in Letters(text.line.toks) =>
           WithinPrecision(text.out.toks[i].v,
                           LastValue(text.line.toks, text.out.toks[i].k),
                           Precision(text.out.toks[i].k))
    /\ TrailingComment(text.out) = TrailingComment(text.line)

----------------------------------------------------------------------------
(* The safety floor (under Spec)                                           *)

\* The states the program reaches, line after line, from a new machine.
DryRunStates ==
  StatesAlong(NewGcodeVm,
              [i \in 1..Len(inputGcodeLines) |-> parseCommand(inputGcodeLines[i])])

\* The minimum of floor and the physical Z of the states from the i-th on
\* that have a known logical position and absolute position mode.
RECURSIVE FloorOverAbsoluteKnown(_, _, _)
FloorOverAbsoluteKnown(states, i, floor) ==
  IF i > Len(states) THEN floor
  ELSE FloorOverAbsoluteKnown(
         states, i + 1,
         IF logicalPositionKnown(states[i]) /\ states[i].positionMode = "absolute"
         THEN QMin(floor, PhysicalZ(states[i]))
         ELSE floor)

\* C17: the safety floor is never above 0, and once the dry run is over it
\* is the minimum of 0 and the physical Z of the states the program reaches
\* with a known logical position in absolute position mode.
C17_FloorIsMinimumOverAbsoluteKnownStates ==
  /\ QLe(minSafeZ, Zero)
  /\ pc \in {"main", "done"} =>
       minSafeZ = FloorOverAbsoluteKnown(DryRunStates, 1, Zero)

----------------------------------------------------------------------------
(* The main loop and the input stack (under FairSpec and Spec)             *)

InputCommands ==
  [i \in 1..Len(inputGcodeLines) |-> parseCommand(inputGcodeLines[i])]

\* The commands still to be taken, the next one first.
Remaining(stack) == Reverse(stack)

\* Every command of the run after the first left the extruded flag true
\* when it was applied, in order, from the state the turn started in.
RunKeepsExtruding(startVm, run) ==
  \A k \in 2..Len(run) : StatesAlong(startVm, run)[k + 1].didExtrudeOnLastMove

\* C19: the main loop starts with all commands of the input in order; a turn
\* takes a prefix of the commands that remain, with nothing dropped,
\* repeated or reordered; a turn for an extrusion run takes the first
\* command and then every command that leaves the extruded flag true, up to
\* the first that leaves it false, which is the next command that remains.
C19_RunIsLongestExtrudingPrefix ==
  [][/\ (pc = "findMinimumSafeZ" /\ pc' = "main") =>
          Remaining(inputStack') = InputCommands
     /\ (pc = "main" /\ pc' = "main") =>
          /\ last'.run \o Remaining(inputStack') = Remaining(inputStack)
          /\ last'.run # <<>>
          /\ last'.how \in RunTurns =>
               /\ RunKeepsExtruding(vm, last'.run)
               /\ inputStack' # <<>> =>
                    ~executeCommand(ExecuteAll(vm, last'.run),
                                    inputStack'[Len(inputStack')]).didExtrudeOnLastMove
          /\ last'.how = "plain" => Len(last'.run) = 1]_vars

\* A run was taken, the command that ended it was put back, and the next
\* turn has taken that command: a move without extrusion, met in a state
\* left by an extruding move.
C19_Witness ==
  /\ pc = "main"
  /\ last.how = "plain"
  /\ isMoveCommand(last.run[1])
  /\ last.startVm.didExtrudeOnLastMove
  /\ Len(outputGcodeLines) >= 3

----------------------------------------------------------------------------
(* Comments and passthrough lines in the output (under Spec)               *)

\* The comments the transform adds.
SynthesizedComments ==
  {BeginningOfTaperedLoop, EndOfTaperedLoop, BeginDividedMove, EndDividedMove}

\* The comments and unknown commands of a sequence, in order.
PassedThrough(sequence) == SelectSeq(sequence, LAMBDA c : c.type # "simple")

\* C20: when process() has returned, the comments and passthrough lines of
\* the output, the comments the transform adds left out, are those of the
\* input: each one once, in the order of the input.
C20_PassthroughKeptOnceInOrder ==
  pc = "done" =>
    SelectSeq(PassedThrough(Emitted), LAMBDA c : c \notin SynthesizedComments)
      = PassedThrough(InputCommands)

\* process() has returned after it scarfed a loop with a comment or a
\* passthrough line of the input in its replayed taper section.
C20_Witness ==
  /\ pc = "done"
  /\ last.how = "scarfed"
  /\ \E i \in 1..Len(ReplayedTaperSection) :
       /\ ReplayedTaperSection[i].type # "simple"
       /\ ReplayedTaperSection[i] \notin SynthesizedComments
  /\ \E i \in 1..Len(EndingTaperOfRun) : isMoveCommand(EndingTaperOfRun[i])

----------------------------------------------------------------------------
(* The running machine state (under Spec)                                  *)

\* C21: the main loop starts with a fresh machine state and no output, and
\* every turn of it appends the commands it emits to the output and brings
\* the running machine state to the state these commands, not the commands
\* of the input it consumed, lead to: so after every turn the running state
\* is the state the commands emitted so far yield from a fresh state.
C21_RunningStateFollowsEmitted ==
  [][/\ (pc = "findMinimumSafeZ" /\ pc' = "main")
          => (vm' = NewGcodeVm /\ outputGcodeLines' = <<>>)
     /\ (pc = "main" /\ pc' = "main")
          => /\ outputGcodeLines' = outputGcodeLines \o Stringified(last'.sequence)
             /\ vm' = ExecuteAll(vm, last'.sequence)]_vars

\* A loop was scarfed, and the state the emitted commands lead to is not
\* the state the commands of the run lead to.
C21_Witness ==
  /\ pc = "done"
  /\ last.how = "scarfed"
  /\ vm = ExecuteAll(last.startVm, last.sequence)
  /\ vm # ExecuteAll(last.startVm, last.run)

----------------------------------------------------------------------------
(* Extrusion of a scarfed loop (under Spec)                                *)

\* The sum of the E arguments of the moves of a sequence.
RECURSIVE SumOfE(_)
SumOfE(sequence) ==
  IF sequence = <<>> THEN Zero
  ELSE QAdd(IF isMoveCommand(Head(sequence)) THEN ArgOr(Head(sequence).args, "E", Zero)
            ELSE Zero,
            SumOfE(Tail(sequence)))

\* The latest turn scarfed a loop that ends exactly where it starts, under
\* relative extrusion.
ScarfedClosedLoop ==
  /\ last.how = "scarfed"
  /\ last.startVm.extrusionMode = "relative"
  /\ EndOfRun.extrusionMode = "relative"
  /\ physicalPosition(EndOfRun) = physicalPosition(last.startVm)

\* C22: the E arguments of the moves emitted for a scarfed loop that ends
\* where it starts add up to the E arguments of the moves of the run.
C22_ScarfedLoopKeepsExtrusion ==
  ScarfedClosedLoop => SumOfE(last.sequence) = SumOfE(last.run)

----------------------------------------------------------------------------
(* The resampled taper section (under Spec)                                *)

\* C23: the divided taper section of a scarfed loop, run from the start
\* state of the run, ends at the physical position at which the taper
\* section it was divided from ends, the split point.
C23_DividedSectionEndsAtSplitPoint ==
  last.how = "scarfed" =>
    physicalPosition(ExecuteAll(last.startVm, ReplayedTaperSection))
      = physicalPosition(ExecuteAll(last.startVm, SplitOfRun.taperSection))

\* The states divideSequence goes through on the taper section of the
\* latest turn, and the positions of the moves in that section.
TaperStates == StatesAlong(last.startVm, SplitOfRun.taperSection)

TaperMoves ==
  {i \in 1..Len(SplitOfRun.taperSection) : isMoveCommand(SplitOfRun.taperSection[i])}

\* The physical length and the extrusion of the i-th command of the taper
\* section.
LengthOfMove(i) ==
  DistanceTo(physicalPosition(TaperStates[i]), physicalPosition(TaperStates[i + 1]))

ExtrusionOfMove(i) == QSub(TaperStates[i + 1].extrusion, TaperStates[i].extrusion)

\* The moves divideMove returns for the i-th command of the taper section,
\* and the states they lead through from the state before that command.
SubSteps(i) ==
  SelectSeq(divideMove(TaperStates[i], SplitOfRun.taperSection[i], params.taperResolution),
            isMoveCommand)

SubStepStates(i) == StatesAlong(TaperStates[i], SubSteps(i))

\* ceil(d / resolution) for the i-th command of the taper section.
StepCountOf(i) == QCeil(QDiv(LengthOfMove(i), params.taperResolution))

\* For the i-th command of the taper section: there are ceil(d / resolution)
\* sub-steps.
SubStepCountIsCeiling(i) == I(Len(SubSteps(i))) = StepCountOf(i)

\* Each sub-step is d / ceil(d / resolution) long, which is no more than
\* the resolution.
SubStepsAreEqualAndShort(i) ==
  \A j \in 1..Len(SubSteps(i)) :
    /\ DistanceTo(physicalPosition(SubStepStates(i)[j]),
                  physicalPosition(SubStepStates(i)[j + 1]))
         = QDiv(LengthOfMove(i), StepCountOf(i))
    /\ QLe(QDiv(LengthOfMove(i), StepCountOf(i)), params.taperResolution)

\* Each sub-step carries the extrusion of the move divided by the step
\* count, and the sub-steps carry the extrusion of the move between them.
SubStepsShareExtrusion(i) ==
  /\ \A j \in 1..Len(SubSteps(i)) :
       ArgVal(SubSteps(i)[j].args, "E") = QDiv(ExtrusionOfMove(i), StepCountOf(i))
  /\ SumOfE(SubSteps(i)) = ExtrusionOfMove(i)

\* C24: divideMove replaces each move of the taper section, of length d, by
\* ceil(d / resolution) sub-steps, each d / ceil(d / resolution) long, which
\* is no more than the resolution, and each with the extrusion of the move
\* divided by the step count, so that their extrusions add up to the
\* extrusion of the move.
C24_DivideMoveEqualSubSteps ==
  last.how \in {"scarfed", "fallback"} =>
    \A i \in TaperMoves :
      /\ SubStepCountIsCeiling(i)
      /\ SubStepsAreEqualAndShort(i)
      /\ SubStepsShareExtrusion(i)

----------------------------------------------------------------------------
(* The split of a loop (under Spec)                                        *)

\* The position in the run of the move that crosses the overlap: the taper
\* section ends with the move to the crossing point made from it.
CrossingIndex == Len(SplitOfRun.taperSection)

\* The state of the run before the move that crosses the overlap, the state
\* after the move to the crossing point, and the state after the move that
\* follows it in the remainder.
BeforeCrossing == ExecuteAll(last.startVm, SubSeq(last.run, 1, CrossingIndex - 1))

AtCrossing == executeCommand(BeforeCrossing, SplitOfRun.taperSection[CrossingIndex])

AfterCrossing == executeCommand(AtCrossing, SplitOfRun.nonTaperSection[1])

\* The moves of the taper section are together as long as the overlap.
TaperSectionIsOverlapLong ==
  SumOfSteps(StatesAlong(last.startVm, SplitOfRun.taperSection), 1) = last.overlap

\* The move that crosses the overlap is replaced by a move in the taper
\* section and a move to its end point in the remainder, which share its
\* extrusion in proportion to their lengths.
CrossingMoveIsSplitInTwo ==
  LET original == executeCommand(BeforeCrossing, last.run[CrossingIndex])
      first == ArgVal(SplitOfRun.taperSection[CrossingIndex].args, "E")
      second == ArgVal(SplitOfRun.nonTaperSection[1].args, "E")
  IN /\ isMoveCommand(last.run[CrossingIndex])
     /\ physicalPosition(AfterCrossing) = physicalPosition(original)
     /\ QAdd(first, second) = QSub(original.extrusion, BeforeCrossing.extrusion)
     /\ QMul(first, DistanceTo(physicalPosition(AtCrossing), physicalPosition(AfterCrossing)))
          = QMul(second, DistanceTo(physicalPosition(BeforeCrossing),
                                    physicalPosition(AtCrossing)))

\* The commands before the move that crosses the overlap are the head of
\* the taper section, the commands after it the tail of the remainder.
OtherCommandsAreKept ==
  /\ Len(SplitOfRun.nonTaperSection) >= 1
  /\ CrossingIndex >= 1
  /\ SubSeq(SplitOfRun.taperSection, 1, CrossingIndex - 1)
       = SubSeq(last.run, 1, CrossingIndex - 1)
  /\ Tail(SplitOfRun.nonTaperSection) = SubSeq(last.run, CrossingIndex + 1, Len(last.run))

\* C25: splitTaperSection makes a taper section whose moves are together
\* exactly as long as the effective overlap; the move that crosses the
\* overlap becomes a move to the crossing point and a move to its end point
\* that share its extrusion in proportion to their lengths; every other
\* command of the run is in one of the two sections, unchanged and in order.
C25_SplitAtOverlap ==
  last.how \in {"scarfed", "fallback"} =>
    /\ OtherCommandsAreKept
    /\ TaperSectionIsOverlapLong
    /\ CrossingMoveIsSplitInTwo

----------------------------------------------------------------------------
(* The moves of the tapers (under Spec)                                    *)

\* The positions of the moves in the replayed taper section.
ReplayedMoves ==
  {i \in 1..Len(ReplayedTaperSection) : isMoveCommand(ReplayedTaperSection[i])}

\* The physical distance covered by the first i commands of the replayed
\* taper section, run from the start of the loop, over the overlap.
StartingT(i) == QDiv(SumOfSteps(SubSeq(ReplayedStates, 1, i + 1), 1), last.overlap)

\* The Z the starting taper gives the i-th command: the physical Z the
\* command leads to, lowered by (1 - t) layer heights but not below the
\* floor, in logical coordinates.
StartingZ(i) ==
  convertPhysicalPositionToLogical(
    ReplayedStates[i],
    Pt(physicalPosition(ReplayedStates[i + 1]).x,
       physicalPosition(ReplayedStates[i + 1]).y,
       QMax(QSub(physicalPosition(ReplayedStates[i + 1]).z,
                 QMul(QSub(One, StartingT(i)), params.layerHeight)),
            minSafeZ))).z

\* The starting taper has a move for the i-th command of the replayed taper
\* section, with its X and Y, the extrusion t times its extrusion and the
\* lowered Z.
StartingTaperMoveIsRamped(i) ==
  /\ StartingTaperOfRun[i].command = ReplayedTaperSection[i].command
  /\ ArgVal(StartingTaperOfRun[i].args, "X") = ArgVal(ReplayedTaperSection[i].args, "X")
  /\ ArgVal(StartingTaperOfRun[i].args, "Y") = ArgVal(ReplayedTaperSection[i].args, "Y")
  /\ ArgVal(StartingTaperOfRun[i].args, "E") = QMul(StartingT(i), FullExtrusionOfStep(i))
  /\ ArgVal(StartingTaperOfRun[i].args, "Z") = StartingZ(i)

\* t lies in [0, 1] and does not decrease along the taper.
StartingTIsARamp(i) ==
  /\ QLe(Zero, StartingT(i))
  /\ QLe(StartingT(i), One)
  /\ \A j \in ReplayedMoves : j < i => QLe(StartingT(j), StartingT(i))

\* C26: for each move of the replayed taper section of a scarfed loop the
\* starting taper has a move with the same X and Y, with the extrusion t
\* times the extrusion of the sub-step and with the Z that is the logical
\* coordinate of max(physical Z - (1 - t) * layerHeight, minSafeZ), for t
\* the distance covered from the start of the loop to the end of that move
\* over the effective overlap; t does not decrease and lies in [0, 1].
C26_StartingTaperRamp ==
  last.how = "scarfed" =>
    /\ Len(StartingTaperOfRun) = Len(ReplayedTaperSection)
    /\ \A i \in ReplayedMoves : StartingTaperMoveIsRamped(i) /\ StartingTIsARamp(i)

\* The positions of the moves of the replayed taper section, in order.
ReplayedMoveIndices ==
  SelectSeq([i \in 1..Len(ReplayedTaperSection) |-> i],
            LAMBDA i : isMoveCommand(ReplayedTaperSection[i]))

\* The state reached after the starting taper and the remainder, and the
\* states the moves of the ending taper lead through from it.
AfterRemainder ==
  ExecuteAll(last.startVm, StartingTaperOfRun \o SplitOfRun.nonTaperSection)

EndingStates == StatesAlong(AfterRemainder, EndingTaperOfRun)

\* The physical position the j-th sub-step of the replayed taper section
\* leads to.
SubStepPoint(j) == physicalPosition(ReplayedStates[ReplayedMoveIndices[j] + 1])

\* The distance from the position reached after the remainder along the
\* first j sub-steps, over the overlap.
RECURSIVE EndingDistance(_)
EndingDistance(j) ==
  IF j = 0 THEN Zero
  ELSE QAdd(EndingDistance(j - 1),
            DistanceTo(IF j = 1 THEN physicalPosition(AfterRemainder)
                       ELSE SubStepPoint(j - 1),
                       SubStepPoint(j)))

EndingT(j) == QDiv(EndingDistance(j), last.overlap)

\* The j-th command of the ending taper is a move to the physical position
\* of the j-th sub-step with (1 - t) times its extrusion.
EndingTaperMoveIsRamped(j) ==
  /\ isMoveCommand(EndingTaperOfRun[j])
  /\ physicalPosition(EndingStates[j + 1]) = SubStepPoint(j)
  /\ ArgVal(EndingTaperOfRun[j].args, "E")
       = QMul(QSub(One, EndingT(j)), FullExtrusionOfStep(ReplayedMoveIndices[j]))

\* C27: the ending taper of a scarfed loop has one move for each move of
\* the replayed taper section and nothing else; the move goes to the
\* physical X, Y and Z of that sub-step and has (1 - t) times its
\* extrusion, for t the distance covered from the position reached after
\* the starting taper and the remainder, over the effective overlap.
C27_EndingTaperRamp ==
  last.how = "scarfed" =>
    /\ Len(EndingTaperOfRun) = Len(ReplayedMoveIndices)
    /\ \A j \in 1..Len(EndingTaperOfRun) : EndingTaperMoveIsRamped(j)

----------------------------------------------------------------------------
(* Extrusion of the taper moves (under Spec)                               *)

\* The extrusion of a taper move is between 0 and the extrusion of the
\* sub-step it was made from.
WithinSubStep(command, i) ==
  /\ QLe(Zero, ArgVal(command.args, "E"))
  /\ QLe(ArgVal(command.args, "E"), FullExtrusionOfStep(i))

\* C28: in a scarfed loop every move of the starting taper and every move
\* of the ending taper extrudes at least 0 and at most what the sub-step of
\* the replayed taper section it was made from extrudes.
C28_TaperExtrusionWithinSubStep ==
  last.how = "scarfed" =>
    /\ \A i \in StartingTaperMoves : WithinSubStep(StartingTaperOfRun[i], i)
    /\ \A j \in 1..Len(EndingTaperOfRun) :
         WithinSubStep(EndingTaperOfRun[j], ReplayedMoveIndices[j])

----------------------------------------------------------------------------
(* The closure test (under Spec)                                           *)

\* The distance between the end and the start of the run of the latest
\* turn.
ClosureGap ==
  DistanceTo(physicalPosition(EndOfRun), physicalPosition(last.startVm))

\* C29: a run that starts at a known position is taken for a loop exactly
\* when its end is less than the loop tolerance away from its start; a run
\* that ends exactly the tolerance away is no loop.
C29_LoopIffWithinTolerance ==
  (last.how \in RunTurns /\ logicalPositionKnown(last.startVm)) =>
    (last.how # "notloop" <=> QLt(ClosureGap, params.loopTolerance))

\* A run that started at a known position and ended exactly the loop
\* tolerance away from it was emitted as no loop.
C29_Witness ==
  /\ pc = "done"
  /\ last.how = "notloop"
  /\ logicalPositionKnown(last.startVm)
  /\ ClosureGap = params.loopTolerance

\* The run of the latest turn started at a known position, ended less
\* than the loop tolerance away from it and is shorter than the taper
\* resolution.
IsShortClosedLoop ==
  /\ last.how \in RunTurns
  /\ logicalPositionKnown(last.startVm)
  /\ QLt(ClosureGap, params.loopTolerance)
  /\ QLt(LengthOfRun, params.taperResolution)

\* C30: a closed loop that is shorter than the taper resolution is emitted
\* as the commands of the run, in order and with their arguments, without
\* loop markers and without divided moves.
C30_ShortLoopPassthrough ==
  IsShortClosedLoop =>
    /\ last.how = "short"
    /\ last.sequence = last.run
    /\ EmittedTail(Len(last.run)) = Stringified(last.run)
    /\ \A i \in 1..Len(last.sequence) : last.sequence[i] \notin SynthesizedComments

\* A closed loop of several commands, longer than 0 and shorter than the
\* taper resolution, was emitted, and process() returned.
C30_Witness ==
  /\ pc = "done"
  /\ IsShortClosedLoop
  /\ Len(last.run) >= 2
  /\ QLt(Zero, LengthOfRun)

----------------------------------------------------------------------------
(* Arcs, homing and the extruded flag of GcodeVm (under SpecVm)            *)

IsArcCommand(command) ==
  command.type = "simple" /\ command.command \in {codes.cwArc, codes.ccwArc}

IsHomeCommand(command) == command.type = "simple" /\ command.command = codes.home

\* The home command names no axis, or names this one.
HomesAxis(command, axis) ==
  IsHomeCommand(command)
    /\ (HasArg(command.args, ArgsKey(axis))
          \/ \A other \in Axes : ~HasArg(command.args, ArgsKey(other)))

\* An absolute move with an argument for the axis, or a home of the axis.
ReestablishesAxis(state, command, axis) ==
  \/ isMoveCommand(command) /\ state.positionMode = "absolute"
       /\ HasArg(command.args, ArgsKey(axis))
  \/ HomesAxis(command, axis)

\* An arc makes the logical X and Y unknown and changes nothing else.
ArcForgetsXAndY ==
  (IsArcCommand(trial.command) /\ ~trial.threw) =>
    trial.after = [trial.before EXCEPT !.logicalPosition.x = Inf,
                                       !.logicalPosition.y = Inf]

\* The command run right after an arc gives X or Y a finite value only by
\* an absolute move with that argument or by homing that axis.
UnknownUntilReestablished ==
  (IsArcCommand(trial.command) /\ ~trial.threw /\ ~trial'.threw) =>
    \A axis \in {"x", "y"} :
      IsFiniteNum(trial'.after.logicalPosition[axis]) =>
        ReestablishesAxis(trial'.before, trial'.command, axis)

\* C31: an arc (G2 or G3) run in any state yields a state whose logical X
\* and Y are unknown (infinite) and whose logical Z, physical offset,
\* extrusion, physical E offset and modes are unchanged, and X and Y stay
\* unknown until each is given again by an absolute move or by homing.
C31_ArcForgetsXAndYUntilReestablished ==
  []ArcForgetsXAndY /\ [][UnknownUntilReestablished]_vars

\* C32: a G28 that names no axis makes the logical position and the physical
\* offset zero on all three axes; a G28 that names axes makes them zero on
\* the named axes only and leaves the coordinates and offsets of the other
\* axes, unknown ones included, as they were; either way the extrusion, the
\* physical E offset and both modes are unchanged.
C32_HomeZeroesNamedAxes ==
  (IsHomeCommand(trial.command) /\ ~trial.threw) =>
    /\ \A axis \in Axes :
         IF HomesAxis(trial.command, axis)
         THEN /\ trial.after.logicalPosition[axis] = Zero
              /\ trial.after.physicalOffset[axis] = Zero
         ELSE /\ trial.after.logicalPosition[axis] = trial.before.logicalPosition[axis]
              /\ trial.after.physicalOffset[axis] = trial.before.physicalOffset[axis]
    /\ trial.after.extrusion = trial.before.extrusion
    /\ trial.after.physicalEOffset = trial.before.physicalEOffset
    /\ trial.after.positionMode = trial.before.positionMode
    /\ trial.after.extrusionMode = trial.before.extrusionMode

\* G28 X run where X had a logical value and an offset and Y is unknown:
\* X is zeroed, the offset of Z and the unknown Y are kept.
C32_Witness ==
  /\ trial.command = parseCommand(Instr("G28", <<Tok("X", Zero, -1)>>))
  /\ ~trial.threw
  /\ trial.before.logicalPosition.x # Zero
  /\ IsFiniteNum(trial.before.logicalPosition.x)
  /\ trial.before.physicalOffset.x # Zero
  /\ trial.after.logicalPosition.x = Zero
  /\ trial.after.physicalOffset.x = Zero
  /\ trial.after.logicalPosition.y = Inf
  /\ trial.after.physicalOffset.z # Zero

\* The move lowers the extrusion: a negative E in relative extrusion mode, an
\* E below the current value in absolute extrusion mode.
IsRetraction(state, command) ==
  /\ HasArg(command.args, "E")
  /\ IF state.extrusionMode = "relative"
     THEN QLt(ArgVal(command.args, "E"), Zero)
     ELSE QLt(ArgVal(command.args, "E"), state.extrusion)

\* C33: after a G0 or G1 the flag didExtrudeOnLastMove is true exactly when
\* the resulting logical extrusion is strictly greater than the extrusion of
\* the state the move ran on; a move with no E argument, with E 0 in
\* relative extrusion mode, or that retracts gives false.
C33_FlagIffExtrusionIncreased ==
  (isMoveCommand(trial.command) /\ ~trial.threw) =>
    /\ trial.after.didExtrudeOnLastMove
         <=> QGt(trial.after.extrusion, trial.before.extrusion)
    /\ ~HasArg(trial.command.args, "E") => ~trial.after.didExtrudeOnLastMove
    /\ (trial.before.extrusionMode = "relative" /\ HasArg(trial.command.args, "E")
          /\ ArgVal(trial.command.args, "E") = Zero)
         => ~trial.after.didExtrudeOnLastMove
    /\ IsRetraction(trial.before, trial.command) => ~trial.after.didExtrudeOnLastMove

\* G1 X2 E0 in relative extrusion mode right after an extruding move: the
\* flag has gone from true to false.
C33_Witness ==
  /\ trial.command = parseCommand(Instr("G1", <<T("X", 2), T("E", 0)>>))
  /\ trial.before.extrusionMode = "relative"
  /\ trial.before.didExtrudeOnLastMove
  /\ ~trial.after.didExtrudeOnLastMove
  /\ trial.after.extrusion = trial.before.extrusion

----------------------------------------------------------------------------
(* Where runs begin and end (under Spec)                                   *)

\* No command of the latest turn that is not a G0 or G1 has changed the
\* extruded flag.
OnlyMovesChangeTheFlag ==
  \A k \in 1..Len(last.run) :
    ~isMoveCommand(last.run[k]) =>
      StatesAlong(last.startVm, last.run)[k + 1].didExtrudeOnLastMove
        = StatesAlong(last.startVm, last.run)[k].didExtrudeOnLastMove

\* The command that remains after the run of the latest turn, if there is
\* one, is a G0 or G1 that does not raise the extrusion.
RunEndsAtMoveWithoutExtrusion ==
  (last.how \in RunTurns /\ inputStack # <<>>) =>
    LET nextCommand == inputStack[Len(inputStack)]
    IN /\ isMoveCommand(nextCommand)
       /\ ~QGt(executeCommand(EndOfRun, nextCommand).extrusion, EndOfRun.extrusion)

\* C34: a command that is no G0/G1 move (comment, passthrough, arc, home,
\* position reset, mode switch) leaves the extruded flag as it was, so such
\* a command after an extruding move of a run is taken into the run by
\* consumeWhileExtruding, and a run ends only at a G0/G1 that does not raise
\* the extrusion or at the end of the program.
C34_RunEndsOnlyAtMoveWithoutExtrusion ==
  OnlyMovesChangeTheFlag /\ RunEndsAtMoveWithoutExtrusion

----------------------------------------------------------------------------
(* The physical frame of GcodeVm (under SpecVm)                            *)

IsSetPositionMode(command) ==
  command.type = "simple" /\ command.command \in {codes.absolute, codes.relative}

IsSetExtrusionMode(command) ==
  command.type = "simple" /\ command.command \in {codes.eAbsolute, codes.eRelative}

\* C36: the physical offset and the physical E offset change only when a
\* position reset (G92, G92.1) or a home (G28) runs: moves, arcs, G90/G91,
\* M82/M83, comments and passthrough lines leave both as they were; G90 and
\* G91 change the position mode and nothing else, M82 and M83 the extrusion
\* mode and nothing else.
C36_OffsetsChangeOnlyOnResetOrHome ==
  /\ (trial.after.physicalOffset # trial.before.physicalOffset
        \/ trial.after.physicalEOffset # trial.before.physicalEOffset)
       => IsSetPosition(trial.command) \/ IsHomeCommand(trial.command)
  /\ IsSetPositionMode(trial.command) =>
       trial.after =
         [trial.before EXCEPT !.positionMode =
            IF trial.command.command = codes.absolute THEN "absolute" ELSE "relative"]
  /\ IsSetExtrusionMode(trial.command) =>
       trial.after =
         [trial.before EXCEPT !.extrusionMode =
            IF trial.command.command = codes.eAbsolute THEN "absolute" ELSE "relative"]

\* G91 run on a state with an offset on X and an E offset: the position mode
\* has changed and the offsets are as they were.
C36_Witness ==
  /\ trial.command = parseCommand(LineRelative)
  /\ trial.before.positionMode = "absolute"
  /\ trial.after.positionMode = "relative"
  /\ trial.after.physicalOffset.x \notin {Zero, Inf}
  /\ trial.after.physicalEOffset # Zero

\* Physical points to move to.
FinitePoints ==
  {PointZero, Pt(I(3), I(-2), Q(1, 2)), Pt(Q(1, 16), I(10), I(7)), Pt(I(-11), I(5), I(-7))}

\* G0 to a logical point.
RapidMoveTo(p) ==
  Simple(codes.rapidMove,
         <<[k |-> "X", v |-> p.x], [k |-> "Y", v |-> p.y], [k |-> "Z", v |-> p.z]>>, "")

\* C37: in a state with a known position and a finite offset,
\* convertPhysicalPositionToLogical undoes the map from logical to physical
\* positions: it takes the physical position of the state to its logical
\* position, and for every finite point p a move in absolute position mode to
\* the converted p yields a state whose physical position is p.
C37_ConvertIsInverse ==
  LET state == trial.after
  IN (logicalPositionKnown(state) /\ PointIsFinite(state.physicalOffset)) =>
       /\ convertPhysicalPositionToLogical(state, physicalPosition(state))
            = state.logicalPosition
       /\ state.positionMode = "absolute" =>
            \A p \in FinitePoints :
              LET moved == executeCommand(
                             state, RapidMoveTo(convertPhysicalPositionToLogical(state, p)))
              IN ~PhysicalPositionThrows(moved) /\ physicalPosition(moved) = p

\* A state in absolute position mode whose offset is not zero on any axis:
\* G28, then G92 X11 Y5 Z7.
C37_Witness ==
  /\ logicalPositionKnown(trial.after)
  /\ trial.after.positionMode = "absolute"
  /\ trial.after.physicalOffset = Pt(I(-11), I(-5), I(-7))
  /\ trial.after.logicalPosition = Pt(I(11), I(5), I(7))

\* The G92 gives a value to an axis whose logical coordinate is unknown.
ResetsUnknownAxis(state, command) ==
  /\ command.type = "simple"
  /\ command.command = codes.setPosition
  /\ \E axis \in Axes :
       HasArg(command.args, ArgsKey(axis)) /\ state.logicalPosition[axis] = Inf

\* The physical offset of some axis is no finite number.
OffsetUndefined(state) == ~PointIsFinite(state.physicalOffset)

\* C38: a G92 that declares an axis whose logical coordinate is unknown
\* (before homing, after an arc) leaves the physical offset undefined, and a
\* request for the physical position in the state it yields throws instead
\* of returning a point.
C38_ResetOfUnknownAxisMakesQueryThrow ==
  (ResetsUnknownAxis(trial.before, trial.command) /\ ~trial.threw) =>
    /\ OffsetUndefined(trial.after)
    /\ PhysicalPositionThrows(trial.after)

\* C39: every run that process() hands to nextExtrusionSequence begins with
\* a G0 or G1: a position reset that raises the logical extrusion value (G92
\* E0 while the value is negative after a retraction) is put out as an
\* ordinary command and starts no run.
C39_RunBeginsWithMove ==
  /\ last.how \in RunTurns => isMoveCommand(last.run[1])
  /\ (last.how # "none" /\ IsSetPosition(last.run[1])) => last.how = "plain"

\* The run has an arc behind its first command.
RunHasArc(run) == \E k \in 2..Len(run) : IsArcCommand(run[k])

\* The run that the command on top of the input stack starts.
RunAhead ==
  consumeWhileExtruding(vm, inputStack[Len(inputStack)],
                        SubSeq(inputStack, 1, Len(inputStack) - 1)).result

====
